---- MODULE Spec2Model ----
(***************************************************************************)
(* Personal finance chatbot: the /chat request handler of api_server.py    *)
(* together with the text utilities and the two external-service wrappers  *)
(* it calls.                                                               *)
(*                                                                         *)
(* Conventions.  A Python str is the sequence of its code points (<<72,    *)
(* 105>> is 'Hi').  A Python value that may be                             *)
(* a str or None is a record [t, v].  A float amount with at most two      *)
(* decimals is its number of cents; a sentiment score is in hundredths.    *)
(***************************************************************************)
EXTENDS Integers, Sequences, FiniteSets, TLC

(***************************** bounds **************************************)
\* number of chat requests that may be in flight together
MaxRequests == 2
\* longest text, in characters, given to the text utilities
MaxTextLen == 5
\* most words joined into a text given to the keyword functions
MaxWords == 3
\* most messages sent in a front end's chat
MaxSent == 3

(************************* Python values ***********************************)
PyStr(s) == [t |-> "str", v |-> s]
PyNone == [t |-> "None", v |-> <<>>]
Missing == [t |-> "missing", v |-> <<>>]

\* bool(x) of a str-or-None value
Truthy(x) == x.t = "str" /\ Len(x.v) > 0

(************************* str primitives **********************************)
\* The character classes of the interpreter (Unicode 14.0.0), as tables over
\* code points.

\* The entries of a table that can hold c.  The tables are in ascending
\* order, and the entries before the 8th, the 64th and the 512th entry of a
\* table end before that entry begins.
Near(c, table) ==
    LET n == Len(table)
    IN IF n < 8 \/ c < table[8][1] THEN 1..(IF n < 7 THEN n ELSE 7)
       ELSE IF n < 64 \/ c < table[64][1] THEN 8..(IF n < 63 THEN n ELSE 63)
       ELSE IF n < 512 \/ c < table[512][1] THEN 64..(IF n < 511 THEN n ELSE 511)
       ELSE 512..n

\* c lies in one of the ranges <<first, last>> of the table
InRanges(c, table) ==
    \E k \in Near(c, table) : table[k][1] <= c /\ c <= table[k][2]

\* the characters c with c.isspace(), as ranges <<first, last>>
SpaceRanges ==
    <<<<9, 13>>, <<28, 32>>, <<133, 133>>, <<160, 160>>, <<5760, 5760>>, <<8192, 8202>>,
      <<8232, 8233>>, <<8239, 8239>>, <<8287, 8287>>, <<12288, 12288>>>>

\* the characters whose lower case is one other character, as runs
\* <<first, last, step, offset>>: first, first + step, ..., last each map to
\* themselves + offset
LowerRuns ==
    <<<<65, 90, 1, 32>>, <<192, 214, 1, 32>>, <<216, 222, 1, 32>>, <<256, 302, 2, 1>>,
      <<306, 310, 2, 1>>, <<313, 327, 2, 1>>, <<330, 374, 2, 1>>, <<376, 376, 1, -121>>,
      <<377, 381, 2, 1>>, <<385, 385, 1, 210>>, <<386, 388, 2, 1>>, <<390, 390, 1, 206>>,
      <<391, 391, 1, 1>>, <<393, 394, 1, 205>>, <<395, 395, 1, 1>>, <<398, 398, 1, 79>>,
      <<399, 399, 1, 202>>, <<400, 400, 1, 203>>, <<401, 401, 1, 1>>, <<403, 403, 1, 205>>,
      <<404, 404, 1, 207>>, <<406, 406, 1, 211>>, <<407, 407, 1, 209>>, <<408, 408, 1, 1>>,
      <<412, 412, 1, 211>>, <<413, 413, 1, 213>>, <<415, 415, 1, 214>>, <<416, 420, 2, 1>>,
      <<422, 422, 1, 218>>, <<423, 423, 1, 1>>, <<425, 425, 1, 218>>, <<428, 428, 1, 1>>,
      <<430, 430, 1, 218>>, <<431, 431, 1, 1>>, <<433, 434, 1, 217>>, <<435, 437, 2, 1>>,
      <<439, 439, 1, 219>>, <<440, 440, 1, 1>>, <<444, 444, 1, 1>>, <<452, 452, 1, 2>>,
      <<453, 453, 1, 1>>, <<455, 455, 1, 2>>, <<456, 456, 1, 1>>, <<458, 458, 1, 2>>,
      <<459, 475, 2, 1>>, <<478, 494, 2, 1>>, <<497, 497, 1, 2>>, <<498, 500, 2, 1>>,
      <<502, 502, 1, -97>>, <<503, 503, 1, -56>>, <<504, 542, 2, 1>>, <<544, 544, 1, -130>>,
      <<546, 562, 2, 1>>, <<570, 570, 1, 10795>>, <<571, 571, 1, 1>>, <<573, 573, 1, -163>>,
      <<574, 574, 1, 10792>>, <<577, 577, 1, 1>>, <<579, 579, 1, -195>>, <<580, 580, 1, 69>>,
      <<581, 581, 1, 71>>, <<582, 590, 2, 1>>, <<880, 882, 2, 1>>, <<886, 886, 1, 1>>,
      <<895, 895, 1, 116>>, <<902, 902, 1, 38>>, <<904, 906, 1, 37>>, <<908, 908, 1, 64>>,
      <<910, 911, 1, 63>>, <<913, 929, 1, 32>>, <<931, 939, 1, 32>>, <<975, 975, 1, 8>>,
      <<984, 1006, 2, 1>>, <<1012, 1012, 1, -60>>, <<1015, 1015, 1, 1>>, <<1017, 1017, 1, -7>>,
      <<1018, 1018, 1, 1>>, <<1021, 1023, 1, -130>>, <<1024, 1039, 1, 80>>,
      <<1040, 1071, 1, 32>>, <<1120, 1152, 2, 1>>, <<1162, 1214, 2, 1>>, <<1216, 1216, 1, 15>>,
      <<1217, 1229, 2, 1>>, <<1232, 1326, 2, 1>>, <<1329, 1366, 1, 48>>,
      <<4256, 4293, 1, 7264>>, <<4295, 4295, 1, 7264>>, <<4301, 4301, 1, 7264>>,
      <<5024, 5103, 1, 38864>>, <<5104, 5109, 1, 8>>, <<7312, 7354, 1, -3008>>,
      <<7357, 7359, 1, -3008>>, <<7680, 7828, 2, 1>>, <<7838, 7838, 1, -7615>>,
      <<7840, 7934, 2, 1>>, <<7944, 7951, 1, -8>>, <<7960, 7965, 1, -8>>,
      <<7976, 7983, 1, -8>>, <<7992, 7999, 1, -8>>, <<8008, 8013, 1, -8>>,
      <<8025, 8031, 2, -8>>, <<8040, 8047, 1, -8>>, <<8072, 8079, 1, -8>>,
      <<8088, 8095, 1, -8>>, <<8104, 8111, 1, -8>>, <<8120, 8121, 1, -8>>,
      <<8122, 8123, 1, -74>>, <<8124, 8124, 1, -9>>, <<8136, 8139, 1, -86>>,
      <<8140, 8140, 1, -9>>, <<8152, 8153, 1, -8>>, <<8154, 8155, 1, -100>>,
      <<8168, 8169, 1, -8>>, <<8170, 8171, 1, -112>>, <<8172, 8172, 1, -7>>,
      <<8184, 8185, 1, -128>>, <<8186, 8187, 1, -126>>, <<8188, 8188, 1, -9>>,
      <<8486, 8486, 1, -7517>>, <<8490, 8490, 1, -8383>>, <<8491, 8491, 1, -8262>>,
      <<8498, 8498, 1, 28>>, <<8544, 8559, 1, 16>>, <<8579, 8579, 1, 1>>,
      <<9398, 9423, 1, 26>>, <<11264, 11311, 1, 48>>, <<11360, 11360, 1, 1>>,
      <<11362, 11362, 1, -10743>>, <<11363, 11363, 1, -3814>>, <<11364, 11364, 1, -10727>>,
      <<11367, 11371, 2, 1>>, <<11373, 11373, 1, -10780>>, <<11374, 11374, 1, -10749>>,
      <<11375, 11375, 1, -10783>>, <<11376, 11376, 1, -10782>>, <<11378, 11378, 1, 1>>,
      <<11381, 11381, 1, 1>>, <<11390, 11391, 1, -10815>>, <<11392, 11490, 2, 1>>,
      <<11499, 11501, 2, 1>>, <<11506, 11506, 1, 1>>, <<42560, 42604, 2, 1>>,
      <<42624, 42650, 2, 1>>, <<42786, 42798, 2, 1>>, <<42802, 42862, 2, 1>>,
      <<42873, 42875, 2, 1>>, <<42877, 42877, 1, -35332>>, <<42878, 42886, 2, 1>>,
      <<42891, 42891, 1, 1>>, <<42893, 42893, 1, -42280>>, <<42896, 42898, 2, 1>>,
      <<42902, 42920, 2, 1>>, <<42922, 42922, 1, -42308>>, <<42923, 42923, 1, -42319>>,
      <<42924, 42924, 1, -42315>>, <<42925, 42925, 1, -42305>>, <<42926, 42926, 1, -42308>>,
      <<42928, 42928, 1, -42258>>, <<42929, 42929, 1, -42282>>, <<42930, 42930, 1, -42261>>,
      <<42931, 42931, 1, 928>>, <<42932, 42946, 2, 1>>, <<42948, 42948, 1, -48>>,
      <<42949, 42949, 1, -42307>>, <<42950, 42950, 1, -35384>>, <<42951, 42953, 2, 1>>,
      <<42960, 42960, 1, 1>>, <<42966, 42968, 2, 1>>, <<42997, 42997, 1, 1>>,
      <<65313, 65338, 1, 32>>, <<66560, 66599, 1, 40>>, <<66736, 66771, 1, 40>>,
      <<66928, 66964, 2, 39>>, <<66929, 66937, 2, 39>>, <<66941, 66953, 2, 39>>,
      <<66957, 66961, 2, 39>>, <<66965, 66965, 1, 39>>, <<68736, 68786, 1, 64>>,
      <<71840, 71871, 1, 32>>, <<93760, 93791, 1, 32>>, <<125184, 125217, 1, 34>>>>

\* the case-ignorable characters, as ranges <<first, last>>
CaseIgnorable ==
    <<<<39, 39>>, <<46, 46>>, <<58, 58>>, <<94, 94>>, <<96, 96>>, <<168, 168>>, <<173, 173>>,
      <<175, 175>>, <<180, 180>>, <<183, 184>>, <<688, 879>>, <<884, 885>>, <<890, 890>>,
      <<900, 901>>, <<903, 903>>, <<1155, 1161>>, <<1369, 1369>>, <<1375, 1375>>,
      <<1425, 1469>>, <<1471, 1471>>, <<1473, 1474>>, <<1476, 1477>>, <<1479, 1479>>,
      <<1524, 1524>>, <<1536, 1541>>, <<1552, 1562>>, <<1564, 1564>>, <<1600, 1600>>,
      <<1611, 1631>>, <<1648, 1648>>, <<1750, 1757>>, <<1759, 1768>>, <<1770, 1773>>,
      <<1807, 1807>>, <<1809, 1809>>, <<1840, 1866>>, <<1958, 1968>>, <<2027, 2037>>,
      <<2042, 2042>>, <<2045, 2045>>, <<2070, 2093>>, <<2137, 2139>>, <<2184, 2184>>,
      <<2192, 2193>>, <<2200, 2207>>, <<2249, 2306>>, <<2362, 2362>>, <<2364, 2364>>,
      <<2369, 2376>>, <<2381, 2381>>, <<2385, 2391>>, <<2402, 2403>>, <<2417, 2417>>,
      <<2433, 2433>>, <<2492, 2492>>, <<2497, 2500>>, <<2509, 2509>>, <<2530, 2531>>,
      <<2558, 2558>>, <<2561, 2562>>, <<2620, 2620>>, <<2625, 2626>>, <<2631, 2632>>,
      <<2635, 2637>>, <<2641, 2641>>, <<2672, 2673>>, <<2677, 2677>>, <<2689, 2690>>,
      <<2748, 2748>>, <<2753, 2757>>, <<2759, 2760>>, <<2765, 2765>>, <<2786, 2787>>,
      <<2810, 2815>>, <<2817, 2817>>, <<2876, 2876>>, <<2879, 2879>>, <<2881, 2884>>,
      <<2893, 2893>>, <<2901, 2902>>, <<2914, 2915>>, <<2946, 2946>>, <<3008, 3008>>,
      <<3021, 3021>>, <<3072, 3072>>, <<3076, 3076>>, <<3132, 3132>>, <<3134, 3136>>,
      <<3142, 3144>>, <<3146, 3149>>, <<3157, 3158>>, <<3170, 3171>>, <<3201, 3201>>,
      <<3260, 3260>>, <<3263, 3263>>, <<3270, 3270>>, <<3276, 3277>>, <<3298, 3299>>,
      <<3328, 3329>>, <<3387, 3388>>, <<3393, 3396>>, <<3405, 3405>>, <<3426, 3427>>,
      <<3457, 3457>>, <<3530, 3530>>, <<3538, 3540>>, <<3542, 3542>>, <<3633, 3633>>,
      <<3636, 3642>>, <<3654, 3662>>, <<3761, 3761>>, <<3764, 3772>>, <<3782, 3782>>,
      <<3784, 3789>>, <<3864, 3865>>, <<3893, 3893>>, <<3895, 3895>>, <<3897, 3897>>,
      <<3953, 3966>>, <<3968, 3972>>, <<3974, 3975>>, <<3981, 3991>>, <<3993, 4028>>,
      <<4038, 4038>>, <<4141, 4144>>, <<4146, 4151>>, <<4153, 4154>>, <<4157, 4158>>,
      <<4184, 4185>>, <<4190, 4192>>, <<4209, 4212>>, <<4226, 4226>>, <<4229, 4230>>,
      <<4237, 4237>>, <<4253, 4253>>, <<4348, 4348>>, <<4957, 4959>>, <<5906, 5908>>,
      <<5938, 5939>>, <<5970, 5971>>, <<6002, 6003>>, <<6068, 6069>>, <<6071, 6077>>,
      <<6086, 6086>>, <<6089, 6099>>, <<6103, 6103>>, <<6109, 6109>>, <<6155, 6159>>,
      <<6211, 6211>>, <<6277, 6278>>, <<6313, 6313>>, <<6432, 6434>>, <<6439, 6440>>,
      <<6450, 6450>>, <<6457, 6459>>, <<6679, 6680>>, <<6683, 6683>>, <<6742, 6742>>,
      <<6744, 6750>>, <<6752, 6752>>, <<6754, 6754>>, <<6757, 6764>>, <<6771, 6780>>,
      <<6783, 6783>>, <<6823, 6823>>, <<6832, 6862>>, <<6912, 6915>>, <<6964, 6964>>,
      <<6966, 6970>>, <<6972, 6972>>, <<6978, 6978>>, <<7019, 7027>>, <<7040, 7041>>,
      <<7074, 7077>>, <<7080, 7081>>, <<7083, 7085>>, <<7142, 7142>>, <<7144, 7145>>,
      <<7149, 7149>>, <<7151, 7153>>, <<7212, 7219>>, <<7222, 7223>>, <<7288, 7293>>,
      <<7376, 7378>>, <<7380, 7392>>, <<7394, 7400>>, <<7405, 7405>>, <<7412, 7412>>,
      <<7416, 7417>>, <<7468, 7530>>, <<7544, 7544>>, <<7579, 7679>>, <<8125, 8125>>,
      <<8127, 8129>>, <<8141, 8143>>, <<8157, 8159>>, <<8173, 8175>>, <<8189, 8190>>,
      <<8203, 8207>>, <<8216, 8217>>, <<8228, 8228>>, <<8231, 8231>>, <<8234, 8238>>,
      <<8288, 8292>>, <<8294, 8303>>, <<8305, 8305>>, <<8319, 8319>>, <<8336, 8348>>,
      <<8400, 8432>>, <<11388, 11389>>, <<11503, 11505>>, <<11631, 11631>>, <<11647, 11647>>,
      <<11744, 11775>>, <<11823, 11823>>, <<12293, 12293>>, <<12330, 12333>>, <<12337, 12341>>,
      <<12347, 12347>>, <<12441, 12446>>, <<12540, 12542>>, <<40981, 40981>>, <<42232, 42237>>,
      <<42508, 42508>>, <<42607, 42610>>, <<42612, 42621>>, <<42623, 42623>>, <<42652, 42655>>,
      <<42736, 42737>>, <<42752, 42785>>, <<42864, 42864>>, <<42888, 42890>>, <<42994, 42996>>,
      <<43000, 43001>>, <<43010, 43010>>, <<43014, 43014>>, <<43019, 43019>>, <<43045, 43046>>,
      <<43052, 43052>>, <<43204, 43205>>, <<43232, 43249>>, <<43263, 43263>>, <<43302, 43309>>,
      <<43335, 43345>>, <<43392, 43394>>, <<43443, 43443>>, <<43446, 43449>>, <<43452, 43453>>,
      <<43471, 43471>>, <<43493, 43494>>, <<43561, 43566>>, <<43569, 43570>>, <<43573, 43574>>,
      <<43587, 43587>>, <<43596, 43596>>, <<43632, 43632>>, <<43644, 43644>>, <<43696, 43696>>,
      <<43698, 43700>>, <<43703, 43704>>, <<43710, 43711>>, <<43713, 43713>>, <<43741, 43741>>,
      <<43756, 43757>>, <<43763, 43764>>, <<43766, 43766>>, <<43867, 43871>>, <<43881, 43883>>,
      <<44005, 44005>>, <<44008, 44008>>, <<44013, 44013>>, <<64286, 64286>>, <<64434, 64450>>,
      <<65024, 65039>>, <<65043, 65043>>, <<65056, 65071>>, <<65106, 65106>>, <<65109, 65109>>,
      <<65279, 65279>>, <<65287, 65287>>, <<65294, 65294>>, <<65306, 65306>>, <<65342, 65342>>,
      <<65344, 65344>>, <<65392, 65392>>, <<65438, 65439>>, <<65507, 65507>>, <<65529, 65531>>,
      <<66045, 66045>>, <<66272, 66272>>, <<66422, 66426>>, <<67456, 67461>>, <<67463, 67504>>,
      <<67506, 67514>>, <<68097, 68099>>, <<68101, 68102>>, <<68108, 68111>>, <<68152, 68154>>,
      <<68159, 68159>>, <<68325, 68326>>, <<68900, 68903>>, <<69291, 69292>>, <<69446, 69456>>,
      <<69506, 69509>>, <<69633, 69633>>, <<69688, 69702>>, <<69744, 69744>>, <<69747, 69748>>,
      <<69759, 69761>>, <<69811, 69814>>, <<69817, 69818>>, <<69821, 69821>>, <<69826, 69826>>,
      <<69837, 69837>>, <<69888, 69890>>, <<69927, 69931>>, <<69933, 69940>>, <<70003, 70003>>,
      <<70016, 70017>>, <<70070, 70078>>, <<70089, 70092>>, <<70095, 70095>>, <<70191, 70193>>,
      <<70196, 70196>>, <<70198, 70199>>, <<70206, 70206>>, <<70367, 70367>>, <<70371, 70378>>,
      <<70400, 70401>>, <<70459, 70460>>, <<70464, 70464>>, <<70502, 70508>>, <<70512, 70516>>,
      <<70712, 70719>>, <<70722, 70724>>, <<70726, 70726>>, <<70750, 70750>>, <<70835, 70840>>,
      <<70842, 70842>>, <<70847, 70848>>, <<70850, 70851>>, <<71090, 71093>>, <<71100, 71101>>,
      <<71103, 71104>>, <<71132, 71133>>, <<71219, 71226>>, <<71229, 71229>>, <<71231, 71232>>,
      <<71339, 71339>>, <<71341, 71341>>, <<71344, 71349>>, <<71351, 71351>>, <<71453, 71455>>,
      <<71458, 71461>>, <<71463, 71467>>, <<71727, 71735>>, <<71737, 71738>>, <<71995, 71996>>,
      <<71998, 71998>>, <<72003, 72003>>, <<72148, 72151>>, <<72154, 72155>>, <<72160, 72160>>,
      <<72193, 72202>>, <<72243, 72248>>, <<72251, 72254>>, <<72263, 72263>>, <<72273, 72278>>,
      <<72281, 72283>>, <<72330, 72342>>, <<72344, 72345>>, <<72752, 72758>>, <<72760, 72765>>,
      <<72767, 72767>>, <<72850, 72871>>, <<72874, 72880>>, <<72882, 72883>>, <<72885, 72886>>,
      <<73009, 73014>>, <<73018, 73018>>, <<73020, 73021>>, <<73023, 73029>>, <<73031, 73031>>,
      <<73104, 73105>>, <<73109, 73109>>, <<73111, 73111>>, <<73459, 73460>>, <<78896, 78904>>,
      <<92912, 92916>>, <<92976, 92982>>, <<92992, 92995>>, <<94031, 94031>>, <<94095, 94111>>,
      <<94176, 94177>>, <<94179, 94180>>, <<110576, 110579>>, <<110581, 110587>>,
      <<110589, 110590>>, <<113821, 113822>>, <<113824, 113827>>, <<118528, 118573>>,
      <<118576, 118598>>, <<119143, 119145>>, <<119155, 119170>>, <<119173, 119179>>,
      <<119210, 119213>>, <<119362, 119364>>, <<121344, 121398>>, <<121403, 121452>>,
      <<121461, 121461>>, <<121476, 121476>>, <<121499, 121503>>, <<121505, 121519>>,
      <<122880, 122886>>, <<122888, 122904>>, <<122907, 122913>>, <<122915, 122916>>,
      <<122918, 122922>>, <<123184, 123197>>, <<123566, 123566>>, <<123628, 123631>>,
      <<125136, 125142>>, <<125252, 125259>>, <<127995, 127999>>, <<917505, 917505>>,
      <<917536, 917631>>, <<917760, 917999>>>>

\* the cased characters that are not case-ignorable, as ranges <<first, last>>
CasedLetters ==
    <<<<65, 90>>, <<97, 122>>, <<170, 170>>, <<181, 181>>, <<186, 186>>, <<192, 214>>,
      <<216, 246>>, <<248, 442>>, <<444, 447>>, <<452, 659>>, <<661, 687>>, <<880, 883>>,
      <<886, 887>>, <<891, 893>>, <<895, 895>>, <<902, 902>>, <<904, 906>>, <<908, 908>>,
      <<910, 929>>, <<931, 1013>>, <<1015, 1153>>, <<1162, 1327>>, <<1329, 1366>>,
      <<1376, 1416>>, <<4256, 4293>>, <<4295, 4295>>, <<4301, 4301>>, <<4304, 4346>>,
      <<4349, 4351>>, <<5024, 5109>>, <<5112, 5117>>, <<7296, 7304>>, <<7312, 7354>>,
      <<7357, 7359>>, <<7424, 7467>>, <<7531, 7543>>, <<7545, 7578>>, <<7680, 7957>>,
      <<7960, 7965>>, <<7968, 8005>>, <<8008, 8013>>, <<8016, 8023>>, <<8025, 8025>>,
      <<8027, 8027>>, <<8029, 8029>>, <<8031, 8061>>, <<8064, 8116>>, <<8118, 8124>>,
      <<8126, 8126>>, <<8130, 8132>>, <<8134, 8140>>, <<8144, 8147>>, <<8150, 8155>>,
      <<8160, 8172>>, <<8178, 8180>>, <<8182, 8188>>, <<8450, 8450>>, <<8455, 8455>>,
      <<8458, 8467>>, <<8469, 8469>>, <<8473, 8477>>, <<8484, 8484>>, <<8486, 8486>>,
      <<8488, 8488>>, <<8490, 8493>>, <<8495, 8500>>, <<8505, 8505>>, <<8508, 8511>>,
      <<8517, 8521>>, <<8526, 8526>>, <<8544, 8575>>, <<8579, 8580>>, <<9398, 9449>>,
      <<11264, 11387>>, <<11390, 11492>>, <<11499, 11502>>, <<11506, 11507>>, <<11520, 11557>>,
      <<11559, 11559>>, <<11565, 11565>>, <<42560, 42605>>, <<42624, 42651>>, <<42786, 42863>>,
      <<42865, 42887>>, <<42891, 42894>>, <<42896, 42954>>, <<42960, 42961>>, <<42963, 42963>>,
      <<42965, 42969>>, <<42997, 42998>>, <<43002, 43002>>, <<43824, 43866>>, <<43872, 43880>>,
      <<43888, 43967>>, <<64256, 64262>>, <<64275, 64279>>, <<65313, 65338>>, <<65345, 65370>>,
      <<66560, 66639>>, <<66736, 66771>>, <<66776, 66811>>, <<66928, 66938>>, <<66940, 66954>>,
      <<66956, 66962>>, <<66964, 66965>>, <<66967, 66977>>, <<66979, 66993>>, <<66995, 67001>>,
      <<67003, 67004>>, <<68736, 68786>>, <<68800, 68850>>, <<71840, 71903>>, <<93760, 93823>>,
      <<119808, 119892>>, <<119894, 119964>>, <<119966, 119967>>, <<119970, 119970>>,
      <<119973, 119974>>, <<119977, 119980>>, <<119982, 119993>>, <<119995, 119995>>,
      <<119997, 120003>>, <<120005, 120069>>, <<120071, 120074>>, <<120077, 120084>>,
      <<120086, 120092>>, <<120094, 120121>>, <<120123, 120126>>, <<120128, 120132>>,
      <<120134, 120134>>, <<120138, 120144>>, <<120146, 120485>>, <<120488, 120512>>,
      <<120514, 120538>>, <<120540, 120570>>, <<120572, 120596>>, <<120598, 120628>>,
      <<120630, 120654>>, <<120656, 120686>>, <<120688, 120712>>, <<120714, 120744>>,
      <<120746, 120770>>, <<120772, 120779>>, <<122624, 122633>>, <<122635, 122654>>,
      <<125184, 125251>>, <<127280, 127305>>, <<127312, 127337>>, <<127344, 127369>>>>

\* c is one of the characters of the run
InRun(c, run) ==
    run[1] <= c /\ c <= run[2] /\ (c - run[1]) % run[3] = 0

\* the lower case of one character: U+0130 alone becomes two characters
LowerChar(c) ==
    IF c = 304 THEN <<105, 775>>
    ELSE IF \E k \in Near(c, LowerRuns) : InRun(c, LowerRuns[k])
         THEN <<c + LowerRuns[CHOOSE k \in Near(c, LowerRuns) : InRun(c, LowerRuns[k])][4]>>
         ELSE <<c>>

\* a cased letter is the first character before position j, j included, that
\* is not case-ignorable
RECURSIVE CasedBefore(_, _)
CasedBefore(s, j) ==
    IF j < 1 THEN FALSE
    ELSE IF InRanges(s[j], CaseIgnorable) THEN CasedBefore(s, j - 1)
    ELSE InRanges(s[j], CasedLetters)

\* a cased letter is the first character from position j on that is not
\* case-ignorable
RECURSIVE CasedAfter(_, _)
CasedAfter(s, j) ==
    IF j > Len(s) THEN FALSE
    ELSE IF InRanges(s[j], CaseIgnorable) THEN CasedAfter(s, j + 1)
    ELSE InRanges(s[j], CasedLetters)

\* the capital sigma (U+03A3) at position i ends a word: its lower case is
\* then U+03C2 and not U+03C3
FinalSigma(s, i) ==
    CasedBefore(s, i - 1) /\ ~CasedAfter(s, i + 1)

RECURSIVE LowerFrom(_, _)
LowerFrom(s, i) ==
    IF i > Len(s) THEN <<>>
    ELSE (IF s[i] = 931 /\ FinalSigma(s, i) THEN <<962>> ELSE LowerChar(s[i]))
             \o LowerFrom(s, i + 1)

\* str.lower()
Lower(s) ==
    LowerFrom(s, 1)

IsSpace(c) ==
    InRanges(c, SpaceRanges)

\* str.strip()
Strip(s) ==
    IF \A i \in 1..Len(s) : IsSpace(s[i])
    THEN <<>>
    ELSE LET first == CHOOSE i \in 1..Len(s) :
                        ~IsSpace(s[i]) /\ \A j \in 1..(i-1) : IsSpace(s[j])
             last == CHOOSE i \in 1..Len(s) :
                        ~IsSpace(s[i]) /\ \A j \in (i+1)..Len(s) : IsSpace(s[j])
         IN SubSeq(s, first, last)

\* sub in s
Contains(sub, s) ==
    \E i \in 0..(Len(s) - Len(sub)) :
        \A j \in 1..Len(sub) : s[i + j] = sub[j]

\* sep.join(parts)
RECURSIVE Join(_, _)
Join(sep, parts) ==
    IF Len(parts) = 0 THEN <<>>
    ELSE IF Len(parts) = 1 THEN parts[1]
    ELSE parts[1] \o sep \o Join(sep, Tail(parts))

\* the runs of ten decimal digits (category Nd), as ranges <<zero, nine>>:
\* the characters \d matches in a str pattern and float() reads
DecimalRuns ==
    <<<<48, 57>>, <<1632, 1641>>, <<1776, 1785>>, <<1984, 1993>>, <<2406, 2415>>,
      <<2534, 2543>>, <<2662, 2671>>, <<2790, 2799>>, <<2918, 2927>>, <<3046, 3055>>,
      <<3174, 3183>>, <<3302, 3311>>, <<3430, 3439>>, <<3558, 3567>>, <<3664, 3673>>,
      <<3792, 3801>>, <<3872, 3881>>, <<4160, 4169>>, <<4240, 4249>>, <<6112, 6121>>,
      <<6160, 6169>>, <<6470, 6479>>, <<6608, 6617>>, <<6784, 6793>>, <<6800, 6809>>,
      <<6992, 7001>>, <<7088, 7097>>, <<7232, 7241>>, <<7248, 7257>>, <<42528, 42537>>,
      <<43216, 43225>>, <<43264, 43273>>, <<43472, 43481>>, <<43504, 43513>>, <<43600, 43609>>,
      <<44016, 44025>>, <<65296, 65305>>, <<66720, 66729>>, <<68912, 68921>>, <<69734, 69743>>,
      <<69872, 69881>>, <<69942, 69951>>, <<70096, 70105>>, <<70384, 70393>>, <<70736, 70745>>,
      <<70864, 70873>>, <<71248, 71257>>, <<71360, 71369>>, <<71472, 71481>>, <<71904, 71913>>,
      <<72016, 72025>>, <<72784, 72793>>, <<73040, 73049>>, <<73120, 73129>>, <<92768, 92777>>,
      <<92864, 92873>>, <<93008, 93017>>, <<120782, 120791>>, <<120792, 120801>>,
      <<120802, 120811>>, <<120812, 120821>>, <<120822, 120831>>, <<123200, 123209>>,
      <<123632, 123641>>, <<125264, 125273>>, <<130032, 130041>>>>

\* c is a decimal digit
IsDigit(c) ==
    InRanges(c, DecimalRuns)

\* the value of a decimal digit
DigitValue(c) ==
    c - DecimalRuns[CHOOSE k \in Near(c, DecimalRuns) :
                        DecimalRuns[k][1] <= c /\ c <= DecimalRuns[k][2]][1]

(************************ backend/utils.py *********************************)
\* The pattern \$?(\d+(?:,\d{3})*(?:\.\d{2})?) of extract_amounts.  Every
\* part after \d+ is optional, so the greedy match never backtracks.

\* \d+ from position p: the position after the last digit of the run
RECURSIVE DigitsEnd(_, _)
DigitsEnd(text, p) ==
    IF p <= Len(text) /\ IsDigit(text[p]) THEN DigitsEnd(text, p + 1) ELSE p

\* GroupsEnd for a pattern without the thousands groups
GroupsEnd_None(text, p) == p

\* (?:,\d{3})* from position p
RECURSIVE GroupsEnd(_, _)
GroupsEnd(text, p) ==
    IF /\ p + 3 <= Len(text)
       /\ text[p] = 44
       /\ \A k \in 1..3 : IsDigit(text[p + k])
    THEN GroupsEnd(text, p + 4)
    ELSE p

\* FractionEnd for a pattern without the two-decimal fraction
FractionEnd_None(text, p) ==
    p

\* (?:\.\d{2})? from position p
FractionEnd(text, p) ==
    IF /\ p + 2 <= Len(text)
       /\ text[p] = 46
       /\ \A k \in 1..2 : IsDigit(text[p + k])
    THEN p + 3
    ELSE p

\* where group 1 starts for a match attempted at position i
GroupStart(text, i) == IF text[i] = 36 THEN i + 1 ELSE i

\* the pattern matches at position i
MatchesAt(text, i) ==
    LET g == GroupStart(text, i)
    IN g <= Len(text) /\ IsDigit(text[g])

\* the position after the match at i
MatchEnd(text, i) ==
    FractionEnd(text, GroupsEnd(text, DigitsEnd(text, GroupStart(text, i))))

\* re.findall(pattern, text): group 1 of the non-overlapping matches, scanning
\* from position i
RECURSIVE FindAllFrom(_, _)
FindAllFrom(text, i) ==
    IF i > Len(text) THEN <<>>
    ELSE IF MatchesAt(text, i)
         THEN <<SubSeq(text, GroupStart(text, i), MatchEnd(text, i) - 1)>>
                  \o FindAllFrom(text, MatchEnd(text, i))
         ELSE FindAllFrom(text, i + 1)

\* match.replace(',', '')
RemoveCommas(s) == SelectSeq(s, LAMBDA c : c /= 44)

\* int of a digit string
RECURSIVE DigitsToInt(_)
DigitsToInt(s) ==
    IF Len(s) = 0 THEN 0
    ELSE 10 * DigitsToInt(SubSeq(s, 1, Len(s) - 1)) + DigitValue(s[Len(s)])

\* float(s) for s = digits or digits "." two digits, as a number of cents
ParseAmount(s) ==
    IF Len(s) >= 3 /\ s[Len(s) - 2] = 46
    THEN 100 * DigitsToInt(SubSeq(s, 1, Len(s) - 3))
             + DigitsToInt(SubSeq(s, Len(s) - 1, Len(s)))
    ELSE 100 * DigitsToInt(s)

\* FinanceUtils.extract_amounts
extract_amounts(text) ==
    LET matches == FindAllFrom(text, 1)
    IN [k \in 1..Len(matches) |-> ParseAmount(RemoveCommas(matches[k]))]

\* decimal digits of a natural number
RECURSIVE IntToDigits(_)
IntToDigits(n) ==
    IF n < 10 THEN <<48 + n>>
    ELSE IntToDigits(n \div 10) \o <<48 + (n % 10)>>

\* the format spec without its ',' option
GroupThousands_Plain(ds) ==
    ds

\* the ',' option of the format spec: a comma before every group of three
\* digits counted from the right
RECURSIVE GroupThousands(_)
GroupThousands(ds) ==
    IF Len(ds) <= 3 THEN ds
    ELSE GroupThousands(SubSeq(ds, 1, Len(ds) - 3))
             \o <<44>> \o SubSeq(ds, Len(ds) - 2, Len(ds))

\* FinanceUtils.format_currency: f"${amount:,.2f}"
format_currency(amount) ==
    <<36>> \o GroupThousands(IntToDigits(amount \div 100))
            \o <<46, 48 + ((amount % 100) \div 10), 48 + (amount % 10)>>

\* api_server.py:131  responses['investment']
Response_investment ==
    <<71, 114, 101, 97, 116, 32, 113, 117, 101, 115, 116, 105, 111, 110, 32, 97, 98, 111,
      117, 116, 32, 105, 110, 118, 101, 115, 116, 105, 110, 103, 33, 32, 72, 101, 114, 101,
      32, 97, 114, 101, 32, 115, 111, 109, 101, 32, 107, 101, 121, 32, 112, 114, 105, 110,
      99, 105, 112, 108, 101, 115, 58, 32, 49, 41, 32, 83, 116, 97, 114, 116, 32, 101,
      97, 114, 108, 121, 32, 116, 111, 32, 98, 101, 110, 101, 102, 105, 116, 32, 102, 114,
      111, 109, 32, 99, 111, 109, 112, 111, 117, 110, 100, 32, 105, 110, 116, 101, 114, 101,
      115, 116, 44, 32, 50, 41, 32, 68, 105, 118, 101, 114, 115, 105, 102, 121, 32, 121,
      111, 117, 114, 32, 112, 111, 114, 116, 102, 111, 108, 105, 111, 32, 97, 99, 114, 111,
      115, 115, 32, 100, 105, 102, 102, 101, 114, 101, 110, 116, 32, 97, 115, 115, 101, 116,
      32, 99, 108, 97, 115, 115, 101, 115, 44, 32, 51, 41, 32, 67, 111, 110, 115, 105,
      100, 101, 114, 32, 108, 111, 119, 45, 99, 111, 115, 116, 32, 105, 110, 100, 101, 120,
      32, 102, 117, 110, 100, 115, 32, 102, 111, 114, 32, 98, 101, 103, 105, 110, 110, 101,
      114, 115, 44, 32, 52, 41, 32, 79, 110, 108, 121, 32, 105, 110, 118, 101, 115, 116,
      32, 109, 111, 110, 101, 121, 32, 121, 111, 117, 32, 119, 111, 110, 39, 116, 32, 110,
      101, 101, 100, 32, 102, 111, 114, 32, 97, 116, 32, 108, 101, 97, 115, 116, 32, 53,
      32, 121, 101, 97, 114, 115, 46, 32, 87, 111, 117, 108, 100, 32, 121, 111, 117, 32,
      108, 105, 107, 101, 32, 115, 112, 101, 99, 105, 102, 105, 99, 32, 97, 100, 118, 105,
      99, 101, 32, 98, 97, 115, 101, 100, 32, 111, 110, 32, 121, 111, 117, 114, 32, 114,
      105, 115, 107, 32, 116, 111, 108, 101, 114, 97, 110, 99, 101, 63>>

Keyword_investment ==
    <<105, 110, 118, 101, 115, 116, 109, 101, 110, 116>>

\* api_server.py:133  responses['budget']
Response_budget ==
    <<67, 114, 101, 97, 116, 105, 110, 103, 32, 97, 32, 98, 117, 100, 103, 101, 116, 32,
      105, 115, 32, 101, 115, 115, 101, 110, 116, 105, 97, 108, 32, 102, 111, 114, 32, 102,
      105, 110, 97, 110, 99, 105, 97, 108, 32, 104, 101, 97, 108, 116, 104, 33, 32, 84,
      114, 121, 32, 116, 104, 101, 32, 53, 48, 47, 51, 48, 47, 50, 48, 32, 114, 117,
      108, 101, 58, 32, 53, 48, 37, 32, 102, 111, 114, 32, 110, 101, 101, 100, 115, 32,
      40, 114, 101, 110, 116, 44, 32, 117, 116, 105, 108, 105, 116, 105, 101, 115, 44, 32,
      103, 114, 111, 99, 101, 114, 105, 101, 115, 41, 44, 32, 51, 48, 37, 32, 102, 111,
      114, 32, 119, 97, 110, 116, 115, 32, 40, 101, 110, 116, 101, 114, 116, 97, 105, 110,
      109, 101, 110, 116, 44, 32, 100, 105, 110, 105, 110, 103, 32, 111, 117, 116, 41, 44,
      32, 97, 110, 100, 32, 50, 48, 37, 32, 102, 111, 114, 32, 115, 97, 118, 105, 110,
      103, 115, 32, 97, 110, 100, 32, 100, 101, 98, 116, 32, 114, 101, 112, 97, 121, 109,
      101, 110, 116, 46, 32, 84, 114, 97, 99, 107, 32, 121, 111, 117, 114, 32, 101, 120,
      112, 101, 110, 115, 101, 115, 32, 102, 111, 114, 32, 97, 32, 109, 111, 110, 116, 104,
      32, 116, 111, 32, 115, 101, 101, 32, 119, 104, 101, 114, 101, 32, 121, 111, 117, 114,
      32, 109, 111, 110, 101, 121, 32, 103, 111, 101, 115, 44, 32, 116, 104, 101, 110, 32,
      97, 100, 106, 117, 115, 116, 32, 97, 99, 99, 111, 114, 100, 105, 110, 103, 108, 121,
      46>>

Keyword_budget ==
    <<98, 117, 100, 103, 101, 116>>

\* api_server.py:135  responses['loan']
Response_loan ==
    <<70, 111, 114, 32, 108, 111, 97, 110, 32, 99, 97, 108, 99, 117, 108, 97, 116, 105,
      111, 110, 115, 44, 32, 116, 104, 101, 32, 107, 101, 121, 32, 102, 97, 99, 116, 111,
      114, 115, 32, 97, 114, 101, 58, 32, 112, 114, 105, 110, 99, 105, 112, 97, 108, 32,
      97, 109, 111, 117, 110, 116, 44, 32, 105, 110, 116, 101, 114, 101, 115, 116, 32, 114,
      97, 116, 101, 44, 32, 97, 110, 100, 32, 108, 111, 97, 110, 32, 116, 101, 114, 109,
      46, 32, 70, 111, 114, 32, 101, 120, 97, 109, 112, 108, 101, 44, 32, 97, 32, 36,
      49, 48, 44, 48, 48, 48, 32, 108, 111, 97, 110, 32, 97, 116, 32, 53, 37, 32,
      97, 110, 110, 117, 97, 108, 32, 105, 110, 116, 101, 114, 101, 115, 116, 32, 102, 111,
      114, 32, 53, 32, 121, 101, 97, 114, 115, 32, 119, 111, 117, 108, 100, 32, 104, 97,
      118, 101, 32, 109, 111, 110, 116, 104, 108, 121, 32, 112, 97, 121, 109, 101, 110, 116,
      115, 32, 111, 102, 32, 97, 112, 112, 114, 111, 120, 105, 109, 97, 116, 101, 108, 121,
      32, 36, 49, 56, 56, 46, 55, 49, 46, 32, 87, 111, 117, 108, 100, 32, 121, 111,
      117, 32, 108, 105, 107, 101, 32, 109, 101, 32, 116, 111, 32, 104, 101, 108, 112, 32,
      99, 97, 108, 99, 117, 108, 97, 116, 101, 32, 112, 97, 121, 109, 101, 110, 116, 115,
      32, 102, 111, 114, 32, 97, 32, 115, 112, 101, 99, 105, 102, 105, 99, 32, 108, 111,
      97, 110, 32, 115, 99, 101, 110, 97, 114, 105, 111, 63>>

Keyword_loan ==
    <<108, 111, 97, 110>>

\* api_server.py:137  responses['save']
Response_save ==
    <<83, 109, 97, 114, 116, 32, 115, 97, 118, 105, 110, 103, 32, 115, 116, 114, 97, 116,
      101, 103, 105, 101, 115, 32, 105, 110, 99, 108, 117, 100, 101, 58, 32, 49, 41, 32,
      80, 97, 121, 32, 121, 111, 117, 114, 115, 101, 108, 102, 32, 102, 105, 114, 115, 116,
      32, 45, 32, 115, 97, 118, 101, 32, 98, 101, 102, 111, 114, 101, 32, 115, 112, 101,
      110, 100, 105, 110, 103, 44, 32, 50, 41, 32, 65, 117, 116, 111, 109, 97, 116, 101,
      32, 116, 114, 97, 110, 115, 102, 101, 114, 115, 32, 116, 111, 32, 115, 97, 118, 105,
      110, 103, 115, 44, 32, 51, 41, 32, 66, 117, 105, 108, 100, 32, 97, 110, 32, 101,
      109, 101, 114, 103, 101, 110, 99, 121, 32, 102, 117, 110, 100, 32, 111, 102, 32, 51,
      45, 54, 32, 109, 111, 110, 116, 104, 115, 32, 101, 120, 112, 101, 110, 115, 101, 115,
      44, 32, 52, 41, 32, 84, 97, 107, 101, 32, 97, 100, 118, 97, 110, 116, 97, 103,
      101, 32, 111, 102, 32, 104, 105, 103, 104, 45, 121, 105, 101, 108, 100, 32, 115, 97,
      118, 105, 110, 103, 115, 32, 97, 99, 99, 111, 117, 110, 116, 115, 44, 32, 53, 41,
      32, 67, 111, 110, 115, 105, 100, 101, 114, 32, 99, 117, 116, 116, 105, 110, 103, 32,
      117, 110, 110, 101, 99, 101, 115, 115, 97, 114, 121, 32, 115, 117, 98, 115, 99, 114,
      105, 112, 116, 105, 111, 110, 115, 32, 97, 110, 100, 32, 101, 120, 112, 101, 110, 115,
      101, 115, 46>>

Keyword_save ==
    <<115, 97, 118, 101>>

\* api_server.py:139  responses['debt']
Response_debt ==
    <<70, 111, 114, 32, 100, 101, 98, 116, 32, 109, 97, 110, 97, 103, 101, 109, 101, 110,
      116, 58, 32, 49, 41, 32, 76, 105, 115, 116, 32, 97, 108, 108, 32, 100, 101, 98,
      116, 115, 32, 119, 105, 116, 104, 32, 98, 97, 108, 97, 110, 99, 101, 115, 32, 97,
      110, 100, 32, 105, 110, 116, 101, 114, 101, 115, 116, 32, 114, 97, 116, 101, 115, 44,
      32, 50, 41, 32, 67, 111, 110, 115, 105, 100, 101, 114, 32, 116, 104, 101, 32, 100,
      101, 98, 116, 32, 115, 110, 111, 119, 98, 97, 108, 108, 32, 40, 112, 97, 121, 32,
      109, 105, 110, 105, 109, 117, 109, 115, 44, 32, 101, 120, 116, 114, 97, 32, 116, 111,
      32, 115, 109, 97, 108, 108, 101, 115, 116, 41, 32, 111, 114, 32, 97, 118, 97, 108,
      97, 110, 99, 104, 101, 32, 109, 101, 116, 104, 111, 100, 32, 40, 101, 120, 116, 114,
      97, 32, 116, 111, 32, 104, 105, 103, 104, 101, 115, 116, 32, 105, 110, 116, 101, 114,
      101, 115, 116, 41, 44, 32, 51, 41, 32, 65, 118, 111, 105, 100, 32, 116, 97, 107,
      105, 110, 103, 32, 111, 110, 32, 110, 101, 119, 32, 100, 101, 98, 116, 44, 32, 52,
      41, 32, 67, 111, 110, 115, 105, 100, 101, 114, 32, 100, 101, 98, 116, 32, 99, 111,
      110, 115, 111, 108, 105, 100, 97, 116, 105, 111, 110, 32, 105, 102, 32, 105, 116, 32,
      108, 111, 119, 101, 114, 115, 32, 121, 111, 117, 114, 32, 105, 110, 116, 101, 114, 101,
      115, 116, 32, 114, 97, 116, 101, 46>>

Keyword_debt ==
    <<100, 101, 98, 116>>

\* api_server.py:141  responses['retirement']
Response_retirement ==
    <<82, 101, 116, 105, 114, 101, 109, 101, 110, 116, 32, 112, 108, 97, 110, 110, 105, 110,
      103, 32, 116, 105, 112, 115, 58, 32, 49, 41, 32, 83, 116, 97, 114, 116, 32, 97,
      115, 32, 101, 97, 114, 108, 121, 32, 97, 115, 32, 112, 111, 115, 115, 105, 98, 108,
      101, 44, 32, 50, 41, 32, 67, 111, 110, 116, 114, 105, 98, 117, 116, 101, 32, 101,
      110, 111, 117, 103, 104, 32, 116, 111, 32, 103, 101, 116, 32, 121, 111, 117, 114, 32,
      101, 109, 112, 108, 111, 121, 101, 114, 39, 115, 32, 52, 48, 49, 40, 107, 41, 32,
      109, 97, 116, 99, 104, 44, 32, 51, 41, 32, 67, 111, 110, 115, 105, 100, 101, 114,
      32, 98, 111, 116, 104, 32, 116, 114, 97, 100, 105, 116, 105, 111, 110, 97, 108, 32,
      97, 110, 100, 32, 82, 111, 116, 104, 32, 73, 82, 65, 32, 111, 112, 116, 105, 111,
      110, 115, 44, 32, 52, 41, 32, 65, 105, 109, 32, 116, 111, 32, 115, 97, 118, 101,
      32, 49, 48, 45, 49, 53, 37, 32, 111, 102, 32, 121, 111, 117, 114, 32, 105, 110,
      99, 111, 109, 101, 44, 32, 53, 41, 32, 82, 101, 118, 105, 101, 119, 32, 97, 110,
      100, 32, 97, 100, 106, 117, 115, 116, 32, 121, 111, 117, 114, 32, 112, 108, 97, 110,
      32, 97, 110, 110, 117, 97, 108, 108, 121, 46>>

Keyword_retirement ==
    <<114, 101, 116, 105, 114, 101, 109, 101, 110, 116>>

DefaultPrefix ==
    <<73, 32, 117, 110, 100, 101, 114, 115, 116, 97, 110, 100, 32, 121, 111, 117, 39, 114,
      101, 32, 97, 115, 107, 105, 110, 103, 32, 97, 98, 111, 117, 116, 58, 32, 39>>

DefaultSuffix ==
    <<39, 46, 32, 87, 104, 105, 108, 101, 32, 73, 39, 100, 32, 108, 111, 118, 101, 32,
      116, 111, 32, 112, 114, 111, 118, 105, 100, 101, 32, 112, 101, 114, 115, 111, 110, 97,
      108, 105, 122, 101, 100, 32, 102, 105, 110, 97, 110, 99, 105, 97, 108, 32, 97, 100,
      118, 105, 99, 101, 44, 32, 73, 32, 114, 101, 99, 111, 109, 109, 101, 110, 100, 32,
      99, 111, 110, 115, 117, 108, 116, 105, 110, 103, 32, 119, 105, 116, 104, 32, 97, 32,
      113, 117, 97, 108, 105, 102, 105, 101, 100, 32, 102, 105, 110, 97, 110, 99, 105, 97,
      108, 32, 97, 100, 118, 105, 115, 111, 114, 32, 102, 111, 114, 32, 121, 111, 117, 114,
      32, 115, 112, 101, 99, 105, 102, 105, 99, 32, 115, 105, 116, 117, 97, 116, 105, 111,
      110, 46, 32, 72, 111, 119, 101, 118, 101, 114, 44, 32, 73, 32, 99, 97, 110, 32,
      104, 101, 108, 112, 32, 119, 105, 116, 104, 32, 103, 101, 110, 101, 114, 97, 108, 32,
      113, 117, 101, 115, 116, 105, 111, 110, 115, 32, 97, 98, 111, 117, 116, 32, 98, 117,
      100, 103, 101, 116, 105, 110, 103, 44, 32, 115, 97, 118, 105, 110, 103, 44, 32, 105,
      110, 118, 101, 115, 116, 105, 110, 103, 32, 98, 97, 115, 105, 99, 115, 44, 32, 97,
      110, 100, 32, 102, 105, 110, 97, 110, 99, 105, 97, 108, 32, 99, 97, 108, 99, 117,
      108, 97, 116, 105, 111, 110, 115, 46, 32, 87, 104, 97, 116, 32, 115, 112, 101, 99,
      105, 102, 105, 99, 32, 97, 114, 101, 97, 32, 119, 111, 117, 108, 100, 32, 121, 111,
      117, 32, 108, 105, 107, 101, 32, 116, 111, 32, 101, 120, 112, 108, 111, 114, 101, 63>>

SummaryPrefix ==
    <<92, 110, 92, 110, 63743, 252, 237, 8734, 32, 73, 32, 110, 111,
      116, 105, 99, 101, 100, 32, 116, 104, 101, 115, 101, 32, 97, 109, 111, 117, 110, 116,
      115, 32, 105, 110, 32, 121, 111, 117, 114, 32, 113, 117, 101, 115, 116, 105, 111, 110,
      58, 32>>

ErrorPrefix ==
    <<69, 114, 114, 111, 114, 32, 103, 101, 110, 101, 114, 97, 116, 105, 110, 103, 32, 114,
      101, 115, 112, 111, 110, 115, 101, 58, 32>>

NotConfiguredText ==
    <<79, 112, 101, 110, 65, 73, 32, 65, 80, 73, 32, 107, 101, 121, 32, 110, 111, 116,
      32, 99, 111, 110, 102, 105, 103, 117, 114, 101, 100, 46, 32, 80, 108, 101, 97, 115,
      101, 32, 99, 104, 101, 99, 107, 32, 121, 111, 117, 114, 32, 101, 110, 118, 105, 114,
      111, 110, 109, 101, 110, 116, 32, 118, 97, 114, 105, 97, 98, 108, 101, 115, 46>>

ApologyText ==
    <<73, 32, 97, 112, 111, 108, 111, 103, 105, 122, 101, 44, 32, 98, 117, 116, 32, 73,
      39, 109, 32, 104, 97, 118, 105, 110, 103, 32, 116, 114, 111, 117, 98, 108, 101, 32,
      112, 114, 111, 99, 101, 115, 115, 105, 110, 103, 32, 121, 111, 117, 114, 32, 114, 101,
      113, 117, 101, 115, 116, 32, 114, 105, 103, 104, 116, 32, 110, 111, 119, 46, 32, 80,
      108, 101, 97, 115, 101, 32, 116, 114, 121, 32, 97, 103, 97, 105, 110, 32, 108, 97,
      116, 101, 114, 46>>

CommaSpace ==
    <<44, 32>>

Msg_hi ==
    <<72, 105>>

Msg_loan ==
    <<32, 76, 111, 97, 110, 32, 36, 49, 44, 50, 53, 48, 46, 53, 48, 32>>

Msg_paid ==
    <<73, 32, 112, 97, 105, 100, 32, 36, 50, 48, 32, 97, 110, 100, 32, 1639>>

Msg_blank ==
    <<32, 160>>

Msg_empty ==
    <<>>

AdviceSample ==
    <<79, 107>>

ErrSample ==
    <<116, 105, 109, 101, 111, 117, 116>>
\* the categories dict of categorize_expense, in insertion order
CategoryNames ==
    <<"food", "transportation", "entertainment", "shopping", "utilities", "healthcare">>
CategoryKeywords ==
    << \* food
       <<
          <<114, 101, 115, 116, 97, 117, 114, 97, 110, 116>>,
          <<103, 114, 111, 99, 101, 114, 121>>,
          <<102, 111, 111, 100>>,
          <<100, 105, 110, 105, 110, 103>>,
          <<99, 111, 102, 102, 101, 101>>,
          <<108, 117, 110, 99, 104>>,
          <<100, 105, 110, 110, 101, 114>> >>,
       \* transportation
       <<
          <<103, 97, 115>>,
          <<117, 98, 101, 114>>,
          <<116, 97, 120, 105>>,
          <<98, 117, 115>>,
          <<116, 114, 97, 105, 110>>,
          <<112, 97, 114, 107, 105, 110, 103>>,
          <<99, 97, 114>> >>,
       \* entertainment
       <<
          <<109, 111, 118, 105, 101>>,
          <<99, 111, 110, 99, 101, 114, 116>>,
          <<103, 97, 109, 101>>,
          <<101, 110, 116, 101, 114, 116, 97, 105, 110, 109, 101, 110, 116>>,
          <<115, 116, 114, 101, 97, 109, 105, 110, 103>> >>,
       \* shopping
       <<
          <<97, 109, 97, 122, 111, 110>>,
          <<115, 116, 111, 114, 101>>,
          <<109, 97, 108, 108>>,
          <<115, 104, 111, 112, 112, 105, 110, 103>>,
          <<99, 108, 111, 116, 104, 101, 115>>,
          <<101, 108, 101, 99, 116, 114, 111, 110, 105, 99, 115>> >>,
       \* utilities
       <<
          <<101, 108, 101, 99, 116, 114, 105, 99>>,
          <<119, 97, 116, 101, 114>>,
          <<105, 110, 116, 101, 114, 110, 101, 116>>,
          <<112, 104, 111, 110, 101>>,
          <<117, 116, 105, 108, 105, 116, 121>> >>,
       \* healthcare
       <<
          <<100, 111, 99, 116, 111, 114>>,
          <<104, 111, 115, 112, 105, 116, 97, 108>>,
          <<112, 104, 97, 114, 109, 97, 99, 121>>,
          <<109, 101, 100, 105, 99, 97, 108>>,
          <<100, 101, 110, 116, 105, 115, 116>> >> >>

\* the loop of lines 71-73 from table entry i on
RECURSIVE CategorizeFrom(_, _)
CategorizeFrom(text_lower, i) ==
    IF i > Len(CategoryNames) THEN "other"
    ELSE IF \E k \in 1..Len(CategoryKeywords[i]) :
                Contains(CategoryKeywords[i][k], text_lower)
         THEN CategoryNames[i]
         ELSE CategorizeFrom(text_lower, i + 1)

\* categorize_expense that does not lower-case the text
categorize_expense_NoLower(text) ==
    CategorizeFrom(text, 1)

\* FinanceUtils.categorize_expense
categorize_expense(text) ==
    CategorizeFrom(Lower(text), 1)

\* the characters \w matches in a str pattern (c.isalnum() or c = "_"), as
\* ranges <<first, last>>
WordRanges ==
    <<<<48, 57>>, <<65, 90>>, <<95, 95>>, <<97, 122>>, <<170, 170>>, <<178, 179>>,
      <<181, 181>>, <<185, 186>>, <<188, 190>>, <<192, 214>>, <<216, 246>>, <<248, 705>>,
      <<710, 721>>, <<736, 740>>, <<748, 748>>, <<750, 750>>, <<880, 884>>, <<886, 887>>,
      <<890, 893>>, <<895, 895>>, <<902, 902>>, <<904, 906>>, <<908, 908>>, <<910, 929>>,
      <<931, 1013>>, <<1015, 1153>>, <<1162, 1327>>, <<1329, 1366>>, <<1369, 1369>>,
      <<1376, 1416>>, <<1488, 1514>>, <<1519, 1522>>, <<1568, 1610>>, <<1632, 1641>>,
      <<1646, 1647>>, <<1649, 1747>>, <<1749, 1749>>, <<1765, 1766>>, <<1774, 1788>>,
      <<1791, 1791>>, <<1808, 1808>>, <<1810, 1839>>, <<1869, 1957>>, <<1969, 1969>>,
      <<1984, 2026>>, <<2036, 2037>>, <<2042, 2042>>, <<2048, 2069>>, <<2074, 2074>>,
      <<2084, 2084>>, <<2088, 2088>>, <<2112, 2136>>, <<2144, 2154>>, <<2160, 2183>>,
      <<2185, 2190>>, <<2208, 2249>>, <<2308, 2361>>, <<2365, 2365>>, <<2384, 2384>>,
      <<2392, 2401>>, <<2406, 2415>>, <<2417, 2432>>, <<2437, 2444>>, <<2447, 2448>>,
      <<2451, 2472>>, <<2474, 2480>>, <<2482, 2482>>, <<2486, 2489>>, <<2493, 2493>>,
      <<2510, 2510>>, <<2524, 2525>>, <<2527, 2529>>, <<2534, 2545>>, <<2548, 2553>>,
      <<2556, 2556>>, <<2565, 2570>>, <<2575, 2576>>, <<2579, 2600>>, <<2602, 2608>>,
      <<2610, 2611>>, <<2613, 2614>>, <<2616, 2617>>, <<2649, 2652>>, <<2654, 2654>>,
      <<2662, 2671>>, <<2674, 2676>>, <<2693, 2701>>, <<2703, 2705>>, <<2707, 2728>>,
      <<2730, 2736>>, <<2738, 2739>>, <<2741, 2745>>, <<2749, 2749>>, <<2768, 2768>>,
      <<2784, 2785>>, <<2790, 2799>>, <<2809, 2809>>, <<2821, 2828>>, <<2831, 2832>>,
      <<2835, 2856>>, <<2858, 2864>>, <<2866, 2867>>, <<2869, 2873>>, <<2877, 2877>>,
      <<2908, 2909>>, <<2911, 2913>>, <<2918, 2927>>, <<2929, 2935>>, <<2947, 2947>>,
      <<2949, 2954>>, <<2958, 2960>>, <<2962, 2965>>, <<2969, 2970>>, <<2972, 2972>>,
      <<2974, 2975>>, <<2979, 2980>>, <<2984, 2986>>, <<2990, 3001>>, <<3024, 3024>>,
      <<3046, 3058>>, <<3077, 3084>>, <<3086, 3088>>, <<3090, 3112>>, <<3114, 3129>>,
      <<3133, 3133>>, <<3160, 3162>>, <<3165, 3165>>, <<3168, 3169>>, <<3174, 3183>>,
      <<3192, 3198>>, <<3200, 3200>>, <<3205, 3212>>, <<3214, 3216>>, <<3218, 3240>>,
      <<3242, 3251>>, <<3253, 3257>>, <<3261, 3261>>, <<3293, 3294>>, <<3296, 3297>>,
      <<3302, 3311>>, <<3313, 3314>>, <<3332, 3340>>, <<3342, 3344>>, <<3346, 3386>>,
      <<3389, 3389>>, <<3406, 3406>>, <<3412, 3414>>, <<3416, 3425>>, <<3430, 3448>>,
      <<3450, 3455>>, <<3461, 3478>>, <<3482, 3505>>, <<3507, 3515>>, <<3517, 3517>>,
      <<3520, 3526>>, <<3558, 3567>>, <<3585, 3632>>, <<3634, 3635>>, <<3648, 3654>>,
      <<3664, 3673>>, <<3713, 3714>>, <<3716, 3716>>, <<3718, 3722>>, <<3724, 3747>>,
      <<3749, 3749>>, <<3751, 3760>>, <<3762, 3763>>, <<3773, 3773>>, <<3776, 3780>>,
      <<3782, 3782>>, <<3792, 3801>>, <<3804, 3807>>, <<3840, 3840>>, <<3872, 3891>>,
      <<3904, 3911>>, <<3913, 3948>>, <<3976, 3980>>, <<4096, 4138>>, <<4159, 4169>>,
      <<4176, 4181>>, <<4186, 4189>>, <<4193, 4193>>, <<4197, 4198>>, <<4206, 4208>>,
      <<4213, 4225>>, <<4238, 4238>>, <<4240, 4249>>, <<4256, 4293>>, <<4295, 4295>>,
      <<4301, 4301>>, <<4304, 4346>>, <<4348, 4680>>, <<4682, 4685>>, <<4688, 4694>>,
      <<4696, 4696>>, <<4698, 4701>>, <<4704, 4744>>, <<4746, 4749>>, <<4752, 4784>>,
      <<4786, 4789>>, <<4792, 4798>>, <<4800, 4800>>, <<4802, 4805>>, <<4808, 4822>>,
      <<4824, 4880>>, <<4882, 4885>>, <<4888, 4954>>, <<4969, 4988>>, <<4992, 5007>>,
      <<5024, 5109>>, <<5112, 5117>>, <<5121, 5740>>, <<5743, 5759>>, <<5761, 5786>>,
      <<5792, 5866>>, <<5870, 5880>>, <<5888, 5905>>, <<5919, 5937>>, <<5952, 5969>>,
      <<5984, 5996>>, <<5998, 6000>>, <<6016, 6067>>, <<6103, 6103>>, <<6108, 6108>>,
      <<6112, 6121>>, <<6128, 6137>>, <<6160, 6169>>, <<6176, 6264>>, <<6272, 6276>>,
      <<6279, 6312>>, <<6314, 6314>>, <<6320, 6389>>, <<6400, 6430>>, <<6470, 6509>>,
      <<6512, 6516>>, <<6528, 6571>>, <<6576, 6601>>, <<6608, 6618>>, <<6656, 6678>>,
      <<6688, 6740>>, <<6784, 6793>>, <<6800, 6809>>, <<6823, 6823>>, <<6917, 6963>>,
      <<6981, 6988>>, <<6992, 7001>>, <<7043, 7072>>, <<7086, 7141>>, <<7168, 7203>>,
      <<7232, 7241>>, <<7245, 7293>>, <<7296, 7304>>, <<7312, 7354>>, <<7357, 7359>>,
      <<7401, 7404>>, <<7406, 7411>>, <<7413, 7414>>, <<7418, 7418>>, <<7424, 7615>>,
      <<7680, 7957>>, <<7960, 7965>>, <<7968, 8005>>, <<8008, 8013>>, <<8016, 8023>>,
      <<8025, 8025>>, <<8027, 8027>>, <<8029, 8029>>, <<8031, 8061>>, <<8064, 8116>>,
      <<8118, 8124>>, <<8126, 8126>>, <<8130, 8132>>, <<8134, 8140>>, <<8144, 8147>>,
      <<8150, 8155>>, <<8160, 8172>>, <<8178, 8180>>, <<8182, 8188>>, <<8304, 8305>>,
      <<8308, 8313>>, <<8319, 8329>>, <<8336, 8348>>, <<8450, 8450>>, <<8455, 8455>>,
      <<8458, 8467>>, <<8469, 8469>>, <<8473, 8477>>, <<8484, 8484>>, <<8486, 8486>>,
      <<8488, 8488>>, <<8490, 8493>>, <<8495, 8505>>, <<8508, 8511>>, <<8517, 8521>>,
      <<8526, 8526>>, <<8528, 8585>>, <<9312, 9371>>, <<9450, 9471>>, <<10102, 10131>>,
      <<11264, 11492>>, <<11499, 11502>>, <<11506, 11507>>, <<11517, 11517>>, <<11520, 11557>>,
      <<11559, 11559>>, <<11565, 11565>>, <<11568, 11623>>, <<11631, 11631>>, <<11648, 11670>>,
      <<11680, 11686>>, <<11688, 11694>>, <<11696, 11702>>, <<11704, 11710>>, <<11712, 11718>>,
      <<11720, 11726>>, <<11728, 11734>>, <<11736, 11742>>, <<11823, 11823>>, <<12293, 12295>>,
      <<12321, 12329>>, <<12337, 12341>>, <<12344, 12348>>, <<12353, 12438>>, <<12445, 12447>>,
      <<12449, 12538>>, <<12540, 12543>>, <<12549, 12591>>, <<12593, 12686>>, <<12690, 12693>>,
      <<12704, 12735>>, <<12784, 12799>>, <<12832, 12841>>, <<12872, 12879>>, <<12881, 12895>>,
      <<12928, 12937>>, <<12977, 12991>>, <<13312, 19903>>, <<19968, 42124>>, <<42192, 42237>>,
      <<42240, 42508>>, <<42512, 42539>>, <<42560, 42606>>, <<42623, 42653>>, <<42656, 42735>>,
      <<42775, 42783>>, <<42786, 42888>>, <<42891, 42954>>, <<42960, 42961>>, <<42963, 42963>>,
      <<42965, 42969>>, <<42994, 43009>>, <<43011, 43013>>, <<43015, 43018>>, <<43020, 43042>>,
      <<43056, 43061>>, <<43072, 43123>>, <<43138, 43187>>, <<43216, 43225>>, <<43250, 43255>>,
      <<43259, 43259>>, <<43261, 43262>>, <<43264, 43301>>, <<43312, 43334>>, <<43360, 43388>>,
      <<43396, 43442>>, <<43471, 43481>>, <<43488, 43492>>, <<43494, 43518>>, <<43520, 43560>>,
      <<43584, 43586>>, <<43588, 43595>>, <<43600, 43609>>, <<43616, 43638>>, <<43642, 43642>>,
      <<43646, 43695>>, <<43697, 43697>>, <<43701, 43702>>, <<43705, 43709>>, <<43712, 43712>>,
      <<43714, 43714>>, <<43739, 43741>>, <<43744, 43754>>, <<43762, 43764>>, <<43777, 43782>>,
      <<43785, 43790>>, <<43793, 43798>>, <<43808, 43814>>, <<43816, 43822>>, <<43824, 43866>>,
      <<43868, 43881>>, <<43888, 44002>>, <<44016, 44025>>, <<44032, 55203>>, <<55216, 55238>>,
      <<55243, 55291>>, <<63744, 64109>>, <<64112, 64217>>, <<64256, 64262>>, <<64275, 64279>>,
      <<64285, 64285>>, <<64287, 64296>>, <<64298, 64310>>, <<64312, 64316>>, <<64318, 64318>>,
      <<64320, 64321>>, <<64323, 64324>>, <<64326, 64433>>, <<64467, 64829>>, <<64848, 64911>>,
      <<64914, 64967>>, <<65008, 65019>>, <<65136, 65140>>, <<65142, 65276>>, <<65296, 65305>>,
      <<65313, 65338>>, <<65345, 65370>>, <<65382, 65470>>, <<65474, 65479>>, <<65482, 65487>>,
      <<65490, 65495>>, <<65498, 65500>>, <<65536, 65547>>, <<65549, 65574>>, <<65576, 65594>>,
      <<65596, 65597>>, <<65599, 65613>>, <<65616, 65629>>, <<65664, 65786>>, <<65799, 65843>>,
      <<65856, 65912>>, <<65930, 65931>>, <<66176, 66204>>, <<66208, 66256>>, <<66273, 66299>>,
      <<66304, 66339>>, <<66349, 66378>>, <<66384, 66421>>, <<66432, 66461>>, <<66464, 66499>>,
      <<66504, 66511>>, <<66513, 66517>>, <<66560, 66717>>, <<66720, 66729>>, <<66736, 66771>>,
      <<66776, 66811>>, <<66816, 66855>>, <<66864, 66915>>, <<66928, 66938>>, <<66940, 66954>>,
      <<66956, 66962>>, <<66964, 66965>>, <<66967, 66977>>, <<66979, 66993>>, <<66995, 67001>>,
      <<67003, 67004>>, <<67072, 67382>>, <<67392, 67413>>, <<67424, 67431>>, <<67456, 67461>>,
      <<67463, 67504>>, <<67506, 67514>>, <<67584, 67589>>, <<67592, 67592>>, <<67594, 67637>>,
      <<67639, 67640>>, <<67644, 67644>>, <<67647, 67669>>, <<67672, 67702>>, <<67705, 67742>>,
      <<67751, 67759>>, <<67808, 67826>>, <<67828, 67829>>, <<67835, 67867>>, <<67872, 67897>>,
      <<67968, 68023>>, <<68028, 68047>>, <<68050, 68096>>, <<68112, 68115>>, <<68117, 68119>>,
      <<68121, 68149>>, <<68160, 68168>>, <<68192, 68222>>, <<68224, 68255>>, <<68288, 68295>>,
      <<68297, 68324>>, <<68331, 68335>>, <<68352, 68405>>, <<68416, 68437>>, <<68440, 68466>>,
      <<68472, 68497>>, <<68521, 68527>>, <<68608, 68680>>, <<68736, 68786>>, <<68800, 68850>>,
      <<68858, 68899>>, <<68912, 68921>>, <<69216, 69246>>, <<69248, 69289>>, <<69296, 69297>>,
      <<69376, 69415>>, <<69424, 69445>>, <<69457, 69460>>, <<69488, 69505>>, <<69552, 69579>>,
      <<69600, 69622>>, <<69635, 69687>>, <<69714, 69743>>, <<69745, 69746>>, <<69749, 69749>>,
      <<69763, 69807>>, <<69840, 69864>>, <<69872, 69881>>, <<69891, 69926>>, <<69942, 69951>>,
      <<69956, 69956>>, <<69959, 69959>>, <<69968, 70002>>, <<70006, 70006>>, <<70019, 70066>>,
      <<70081, 70084>>, <<70096, 70106>>, <<70108, 70108>>, <<70113, 70132>>, <<70144, 70161>>,
      <<70163, 70187>>, <<70272, 70278>>, <<70280, 70280>>, <<70282, 70285>>, <<70287, 70301>>,
      <<70303, 70312>>, <<70320, 70366>>, <<70384, 70393>>, <<70405, 70412>>, <<70415, 70416>>,
      <<70419, 70440>>, <<70442, 70448>>, <<70450, 70451>>, <<70453, 70457>>, <<70461, 70461>>,
      <<70480, 70480>>, <<70493, 70497>>, <<70656, 70708>>, <<70727, 70730>>, <<70736, 70745>>,
      <<70751, 70753>>, <<70784, 70831>>, <<70852, 70853>>, <<70855, 70855>>, <<70864, 70873>>,
      <<71040, 71086>>, <<71128, 71131>>, <<71168, 71215>>, <<71236, 71236>>, <<71248, 71257>>,
      <<71296, 71338>>, <<71352, 71352>>, <<71360, 71369>>, <<71424, 71450>>, <<71472, 71483>>,
      <<71488, 71494>>, <<71680, 71723>>, <<71840, 71922>>, <<71935, 71942>>, <<71945, 71945>>,
      <<71948, 71955>>, <<71957, 71958>>, <<71960, 71983>>, <<71999, 71999>>, <<72001, 72001>>,
      <<72016, 72025>>, <<72096, 72103>>, <<72106, 72144>>, <<72161, 72161>>, <<72163, 72163>>,
      <<72192, 72192>>, <<72203, 72242>>, <<72250, 72250>>, <<72272, 72272>>, <<72284, 72329>>,
      <<72349, 72349>>, <<72368, 72440>>, <<72704, 72712>>, <<72714, 72750>>, <<72768, 72768>>,
      <<72784, 72812>>, <<72818, 72847>>, <<72960, 72966>>, <<72968, 72969>>, <<72971, 73008>>,
      <<73030, 73030>>, <<73040, 73049>>, <<73056, 73061>>, <<73063, 73064>>, <<73066, 73097>>,
      <<73112, 73112>>, <<73120, 73129>>, <<73440, 73458>>, <<73648, 73648>>, <<73664, 73684>>,
      <<73728, 74649>>, <<74752, 74862>>, <<74880, 75075>>, <<77712, 77808>>, <<77824, 78894>>,
      <<82944, 83526>>, <<92160, 92728>>, <<92736, 92766>>, <<92768, 92777>>, <<92784, 92862>>,
      <<92864, 92873>>, <<92880, 92909>>, <<92928, 92975>>, <<92992, 92995>>, <<93008, 93017>>,
      <<93019, 93025>>, <<93027, 93047>>, <<93053, 93071>>, <<93760, 93846>>, <<93952, 94026>>,
      <<94032, 94032>>, <<94099, 94111>>, <<94176, 94177>>, <<94179, 94179>>,
      <<94208, 100343>>, <<100352, 101589>>, <<101632, 101640>>, <<110576, 110579>>,
      <<110581, 110587>>, <<110589, 110590>>, <<110592, 110882>>, <<110928, 110930>>,
      <<110948, 110951>>, <<110960, 111355>>, <<113664, 113770>>, <<113776, 113788>>,
      <<113792, 113800>>, <<113808, 113817>>, <<119520, 119539>>, <<119648, 119672>>,
      <<119808, 119892>>, <<119894, 119964>>, <<119966, 119967>>, <<119970, 119970>>,
      <<119973, 119974>>, <<119977, 119980>>, <<119982, 119993>>, <<119995, 119995>>,
      <<119997, 120003>>, <<120005, 120069>>, <<120071, 120074>>, <<120077, 120084>>,
      <<120086, 120092>>, <<120094, 120121>>, <<120123, 120126>>, <<120128, 120132>>,
      <<120134, 120134>>, <<120138, 120144>>, <<120146, 120485>>, <<120488, 120512>>,
      <<120514, 120538>>, <<120540, 120570>>, <<120572, 120596>>, <<120598, 120628>>,
      <<120630, 120654>>, <<120656, 120686>>, <<120688, 120712>>, <<120714, 120744>>,
      <<120746, 120770>>, <<120772, 120779>>, <<120782, 120831>>, <<122624, 122654>>,
      <<123136, 123180>>, <<123191, 123197>>, <<123200, 123209>>, <<123214, 123214>>,
      <<123536, 123565>>, <<123584, 123627>>, <<123632, 123641>>, <<124896, 124902>>,
      <<124904, 124907>>, <<124909, 124910>>, <<124912, 124926>>, <<124928, 125124>>,
      <<125127, 125135>>, <<125184, 125251>>, <<125259, 125259>>, <<125264, 125273>>,
      <<126065, 126123>>, <<126125, 126127>>, <<126129, 126132>>, <<126209, 126253>>,
      <<126255, 126269>>, <<126464, 126467>>, <<126469, 126495>>, <<126497, 126498>>,
      <<126500, 126500>>, <<126503, 126503>>, <<126505, 126514>>, <<126516, 126519>>,
      <<126521, 126521>>, <<126523, 126523>>, <<126530, 126530>>, <<126535, 126535>>,
      <<126537, 126537>>, <<126539, 126539>>, <<126541, 126543>>, <<126545, 126546>>,
      <<126548, 126548>>, <<126551, 126551>>, <<126553, 126553>>, <<126555, 126555>>,
      <<126557, 126557>>, <<126559, 126559>>, <<126561, 126562>>, <<126564, 126564>>,
      <<126567, 126570>>, <<126572, 126578>>, <<126580, 126583>>, <<126585, 126588>>,
      <<126590, 126590>>, <<126592, 126601>>, <<126603, 126619>>, <<126625, 126627>>,
      <<126629, 126633>>, <<126635, 126651>>, <<127232, 127244>>, <<130032, 130041>>,
      <<131072, 173791>>, <<173824, 177976>>, <<177984, 178205>>, <<178208, 183969>>,
      <<183984, 191456>>, <<194560, 195101>>, <<196608, 201546>>>>

\* \w of the re module
IsWord(c) ==
    InRanges(c, WordRanges)

Boundary(text, p) ==
    LET before == p > 1 /\ IsWord(text[p - 1])
        after == p <= Len(text) /\ IsWord(text[p])
    IN before /= after

\* every character of text[from..to] is a digit
AllDigits(text, from, to) == \A k \in from..to : IsDigit(text[k])

\* an amount test that asks for the dollar sign
HasAmount_Dollar(text) ==
    \E i \in 1..Len(text) : text[i] = 36 /\ MatchesAt(text, i)

\* re.search(r'\$?\d+(?:,\d{3})*(?:\.\d{2})?', text)
HasAmount(text) ==
    \E i \in 1..Len(text) : MatchesAt(text, i)

\* \d+(?:\.\d+)?% matches at position i: after the digit run comes the
\* percent sign, or a point, a second digit run and the percent sign
PercentMatchesAt(text, i) ==
    /\ IsDigit(text[i])
    /\ LET e == DigitsEnd(text, i)
       IN \/ e <= Len(text) /\ text[e] = 37
          \/ /\ e + 1 <= Len(text)
             /\ text[e] = 46
             /\ IsDigit(text[e + 1])
             /\ LET f == DigitsEnd(text, e + 1)
                IN f <= Len(text) /\ text[f] = 37

\* a percentage test that looks for the percent sign only
HasPercentage_SignOnly(text) ==
    \E i \in 1..Len(text) : text[i] = 37

\* re.search(r'\d+(?:\.\d+)?%', text)
HasPercentage(text) ==
    \E i \in 1..Len(text) : PercentMatchesAt(text, i)

\* \b\d{1,2}[/-]\d{1,2}[/-]\d{2,4}\b matches at position i, with a, b and c
\* digits in its three numbers
DateMatchesAt(text, i) ==
    /\ Boundary(text, i)
    /\ \E a \in 1..2, b \in 1..2, c \in 2..4 :
          LET s1 == i + a
              s2 == s1 + 1 + b
              e == s2 + 1 + c
          IN /\ e - 1 <= Len(text)
             /\ AllDigits(text, i, s1 - 1)
             /\ text[s1] \in {47, 45}
             /\ AllDigits(text, s1 + 1, s2 - 1)
             /\ text[s2] \in {47, 45}
             /\ AllDigits(text, s2 + 1, e - 1)
             /\ Boundary(text, e)

\* re.search(r'\b\d{1,2}[/-]\d{1,2}[/-]\d{2,4}\b', text)
HasDate(text) ==
    \E i \in 1..Len(text) : DateMatchesAt(text, i)

\* FinanceUtils.validate_financial_input
validate_financial_input(text) ==
    [has_amount |-> HasAmount(text),
     has_percentage |-> HasPercentage(text),
     has_date |-> HasDate(text)]

(****************** backend/utils.py: the calculators **********************)
\* A float is modelled by the exact rational <<numerator, denominator>> in
\* lowest terms with a positive denominator; the inputs below are chosen so
\* that every intermediate value fits the integers of the model checker.
\* The float the code holds differs from the rational by the rounding error
\* of the float operations; the error is far smaller than a cent, so it
\* shows only where round() meets a tie, and there its sign decides.
Abs(n) == IF n < 0 THEN -n ELSE n

RECURSIVE GCD(_, _)
GCD(a, b) == IF b = 0 THEN a ELSE GCD(b, a % b)

Rat(n, d) ==
    LET g == GCD(Abs(n), Abs(d))
        sgn == IF d < 0 THEN -1 ELSE 1
    IN <<(sgn * n) \div g, (sgn * d) \div g>>

RInt(n) == <<n, 1>>
RAdd(a, b) == Rat(a[1] * b[2] + b[1] * a[2], a[2] * b[2])
RSub(a, b) == RAdd(a, <<-b[1], b[2]>>)

\* a * b, reduced crosswise before multiplying
RMul(a, b) ==
    LET x == Rat(a[1], b[2])
        y == Rat(b[1], a[2])
    IN <<x[1] * y[1], x[2] * y[2]>>

\* a / b for b /= 0
RDiv(a, b) == RMul(a, Rat(b[2], b[1]))

\* a ** k for an integer k (a /= 0 when k < 0)
RECURSIVE RPow(_, _)
RPow(a, k) ==
    IF k = 0 THEN RInt(1)
    ELSE IF k < 0 THEN RPow(Rat(a[2], a[1]), -k)
    ELSE RMul(a, RPow(a, k - 1))

\* a float holds x exactly: the denominator is a power of two (every
\* numerator of the model has fewer than 53 bits)
RECURSIVE PowerOfTwo(_)
PowerOfTwo(d) ==
    d = 1 \/ (d % 2 = 0 /\ PowerOfTwo(d \div 2))

Dyadic(x) ==
    PowerOfTwo(x[2])

\* The signs the error of a float computation can have, float minus exact
\* result, given the inputs and intermediate values of the computation: no
\* error when a float holds each of them exactly (an operation whose exact
\* result is a float returns it), and some error when no float holds the
\* result.
FloatErrors(values, result) ==
    IF \A k \in 1..Len(values) : Dyadic(values[k]) THEN {0}
    ELSE IF Dyadic(result) THEN {-1, 0, 1}
    ELSE {-1, 1}

\* round(x, 2) of the float whose exact counterpart is x and whose error has
\* the sign err: the nearest whole number of cents; at a tie of x the error
\* decides, and a float that is the tie itself goes to the even cent
Round2(x, err) ==
    LET n == 100 * x[1]
        q == n \div x[2]
        r == n % x[2]
        cents == IF 2 * r < x[2] THEN q
                 ELSE IF 2 * r > x[2] THEN q + 1
                 ELSE IF err < 0 THEN q
                 ELSE IF err > 0 THEN q + 1
                 ELSE IF q % 2 = 0 THEN q ELSE q + 1
    IN Rat(cents, 100)

\* a call returns a number or raises
Value(x) == [kind |-> "value", v |-> x]
Raise(e) == [kind |-> e, v |-> RInt(0)]

\* FinanceUtils.calculate_compound_interest, for a whole number of years;
\* err is the sign of the error of the float amount
calculate_compound_interest(principal, rate, time, compound_frequency, err) ==
    IF compound_frequency = 0 THEN Raise("ZeroDivisionError")
    ELSE LET base == RAdd(RInt(1), RDiv(rate, RInt(compound_frequency)))
             exponent == compound_frequency * time
         IN IF base[1] = 0 /\ exponent < 0 THEN Raise("ZeroDivisionError")
            ELSE Value(Round2(RMul(principal, RPow(base, exponent)), err))

\* the signs the error of the amount of line 38 can have
CompoundErrors(principal, rate, time, compound_frequency) ==
    IF calculate_compound_interest(principal, rate, time,
                                   compound_frequency, 0).kind /= "value"
    THEN {0}
    ELSE LET quotient == RDiv(rate, RInt(compound_frequency))
             base == RAdd(RInt(1), quotient)
             power == RPow(base, compound_frequency * time)
             amount == RMul(principal, power)
         IN FloatErrors(<<principal, rate, quotient, base, power, amount>>, amount)

\* FinanceUtils.calculate_monthly_payment; err is the sign of the error of
\* the float payment
calculate_monthly_payment(loan_amount, annual_rate, years, err) ==
    LET monthly_rate == RDiv(annual_rate, RInt(12))
        num_payments == years * 12
    IN IF monthly_rate[1] = 0
       THEN IF num_payments = 0 THEN Raise("ZeroDivisionError")
            ELSE Value(RDiv(loan_amount, RInt(num_payments)))
       ELSE LET onePlus == RAdd(RInt(1), monthly_rate)
            IN IF onePlus[1] = 0 /\ num_payments < 0
               THEN Raise("ZeroDivisionError")
               ELSE LET growth == RPow(onePlus, num_payments)
                        denominator == RSub(growth, RInt(1))
                    IN IF denominator[1] = 0 THEN Raise("ZeroDivisionError")
                       ELSE Value(Round2(RDiv(RMul(loan_amount,
                                RMul(monthly_rate, growth)), denominator), err))

\* the signs the error of the payment of lines 50-51 can have
PaymentErrors(loan_amount, annual_rate, years) ==
    LET monthly_rate == RDiv(annual_rate, RInt(12))
    IN IF \/ calculate_monthly_payment(loan_amount, annual_rate, years, 0).kind /= "value"
          \/ monthly_rate[1] = 0
       THEN {0}
       ELSE LET onePlus == RAdd(RInt(1), monthly_rate)
                growth == RPow(onePlus, years * 12)
                product == RMul(monthly_rate, growth)
                numerator == RMul(loan_amount, product)
                denominator == RSub(growth, RInt(1))
                payment == RDiv(numerator, denominator)
            IN FloatErrors(<<loan_amount, annual_rate, monthly_rate, onePlus, growth,
                             product, numerator, denominator, payment>>, payment)

(************************ backend/openai_api.py ****************************)
\* What openai.chat.completions.create does on one call: it returns a
\* completion whose message content is a str or None, or it raises.
AdviceOutcomes ==
    { [kind |-> "content", value |-> PyStr(AdviceSample)],
      [kind |-> "content", value |-> PyStr(<<>>)],
      [kind |-> "content", value |-> PyNone],
      [kind |-> "raise", value |-> PyStr(ErrSample)] }

\* OpenAIHandler.generate_response
generate_response(key, outcome) ==
    IF ~key THEN PyStr(NotConfiguredText)
    ELSE IF outcome.kind = "raise" THEN PyStr(ErrorPrefix \o outcome.value.v)
    ELSE outcome.value

\* OpenAIHandler.get_financial_advice
get_financial_advice(key, outcome) == generate_response(key, outcome)

(********************** backend/google_nlu_api.py **************************)
\* scores a successful analysis may report, in hundredths
SampleScores == {-50, 0, 50}

\* What client.analyze_sentiment does on one call: it returns a document
\* sentiment with a score, or it raises.
SentimentOutcomes ==
    { [kind |-> "score", score |-> s] : s \in SampleScores }
        \cup { [kind |-> "raise", score |-> 0] }

\* _get_sentiment_label with the thresholds included in positive and negative
get_sentiment_label_Inclusive(score) ==
    IF score >= 25 THEN "positive"
    ELSE IF score <= -25 THEN "negative"
    ELSE "neutral"

\* GoogleNLUHandler._get_sentiment_label
get_sentiment_label(score) ==
    IF score > 25 THEN "positive"
    ELSE IF score < -25 THEN "negative"
    ELSE "neutral"

\* GoogleNLUHandler.analyze_sentiment: the returned dict
analyze_sentiment(hasClient, outcome) ==
    IF ~hasClient THEN [sentiment |-> "unknown", score |-> 0, error |-> TRUE]
    ELSE IF outcome.kind = "raise"
         THEN [sentiment |-> "error", score |-> 0, error |-> TRUE]
    ELSE [sentiment |-> get_sentiment_label(outcome.score),
          score |-> outcome.score, error |-> FALSE]

(*************************** api_server.py *********************************)
\* the responses dict of generate_fallback_response, in insertion order
Keywords ==
    <<Keyword_investment, Keyword_budget, Keyword_loan,
      Keyword_save, Keyword_debt, Keyword_retirement>>
Responses ==
    <<Response_investment, Response_budget, Response_loan,
      Response_save, Response_debt, Response_retirement>>

\* generate_fallback_response without its default response (line 150)
generate_fallback_response_NoDefault(msg) ==
    LET Answer(message_lower) ==
            LET hits == {k \in 1..Len(Keywords) : Contains(Keywords[k], message_lower)}
            IN IF hits /= {}
               THEN Responses[CHOOSE k \in hits : \A j \in hits : k <= j]
               ELSE <<>>
    \* message_lower is bound through a set: its value is computed once
    IN CHOOSE text \in {Answer(message_lower) : message_lower \in {Lower(msg)}} : TRUE

\* generate_fallback_response returning the response of the last keyword found
generate_fallback_response_LastMatch(msg) ==
    LET Answer(message_lower) ==
            LET hits == {k \in 1..Len(Keywords) : Contains(Keywords[k], message_lower)}
            IN IF hits /= {}
               THEN Responses[CHOOSE k \in hits : \A j \in hits : k >= j]
               ELSE DefaultPrefix \o msg \o DefaultSuffix
    \* message_lower is bound through a set: its value is computed once
    IN CHOOSE text \in {Answer(message_lower) : message_lower \in {Lower(msg)}} : TRUE

\* generate_fallback_response echoing the lower-cased message
generate_fallback_response_EchoLower(msg) ==
    LET Answer(message_lower) ==
            LET hits == {k \in 1..Len(Keywords) : Contains(Keywords[k], message_lower)}
            IN IF hits /= {}
               THEN Responses[CHOOSE k \in hits : \A j \in hits : k <= j]
               ELSE DefaultPrefix \o message_lower \o DefaultSuffix
    \* message_lower is bound through a set: its value is computed once
    IN CHOOSE text \in {Answer(message_lower) : message_lower \in {Lower(msg)}} : TRUE

\* generate_fallback_response
generate_fallback_response(msg) ==
    LET Answer(message_lower) ==
            LET hits == {k \in 1..Len(Keywords) : Contains(Keywords[k], message_lower)}
            IN IF hits /= {}
               THEN Responses[CHOOSE k \in hits : \A j \in hits : k <= j]
               ELSE DefaultPrefix \o msg \o DefaultSuffix
    \* message_lower is bound through a set: its value is computed once
    IN CHOOSE text \in {Answer(message_lower) : message_lower \in {Lower(msg)}} : TRUE

\* the request bodies: what request.get_json() yields and what its
\* 'message' entry is
SampleMessages == {Msg_hi, Msg_loan, Msg_paid, Msg_blank, Msg_empty}
Bodies ==
    { [json |-> "dict", message |-> PyStr(m)] : m \in SampleMessages }
        \cup { [json |-> "dict", message |-> Missing],
               [json |-> "dict", message |-> PyNone],
               [json |-> "None", message |-> Missing] }

Requests == 1..MaxRequests
Services == {"google", "openai"}

VARIABLES
    BACKEND_AVAILABLE,  \* the backend modules were imported
    api_key,            \* openai_handler.api_key is set
    client,             \* google_handler.client is set
    unresponsive,       \* the external services that never answer a call
    pc,                 \* where each request's handler is
    message,            \* chat's local: the stripped message
    response,           \* chat's local: the response dict being built
    reply,              \* what the handler returned
    log,                \* history: the steps the handler has taken, in order
    writers,            \* history: who assigned response['text'], in order
    sentimentOutcome,   \* history: what the sentiment call did
    adviceOutcome,      \* history: what the advice call did
    received,           \* history: the body each request arrived with
    call,               \* the last direct call of a utility function
    chat_layout,        \* Kivy: the bubbles of the chat, oldest first
    kivy_threads,       \* Kivy: the running background threads, each with its message
    kivy_clock,         \* Kivy: the replace_last_message callbacks scheduled, in order
    kivy_sent,          \* Kivy history: how many messages were sent
    response_queue,     \* Tkinter: the entries on self.response_queue, oldest first
    tk_threads,         \* Tkinter: the running background threads, each with its message
    chat_display,       \* Tkinter: the lines of the chat text, the last empty one left out
    tk_armed,           \* Tkinter: check_response_queue is scheduled to run
    tk_sent,            \* Tkinter history: how many messages were sent
    tk_put,             \* Tkinter history: every entry put on the queue, in order
    tk_displayed,       \* Tkinter history: every entry taken off and displayed, in order
    conversations,      \* FastAPI: conversations["default"], or that there is none
    fast_last           \* FastAPI history: the last operation served

vars ==
    <<BACKEND_AVAILABLE, api_key, client, unresponsive, pc, message, response,
      reply, log, writers, sentimentOutcome, adviceOutcome, received, call,
      chat_layout, kivy_threads, kivy_clock, kivy_sent,
      response_queue, tk_threads, chat_display, tk_armed, tk_sent, tk_put,
      tk_displayed, conversations, fast_last>>

\* the state of the Kivy chat screen
kivyVars == <<chat_layout, kivy_threads, kivy_clock, kivy_sent>>

\* the state of the Tkinter window
tkVars ==
    <<response_queue, tk_threads, chat_display, tk_armed, tk_sent, tk_put,
      tk_displayed>>

\* the state of the FastAPI front end
fastVars == <<conversations, fast_last>>

\* the state of the front ends
frontVars == <<kivyVars, tkVars, fastVars>>

config == <<BACKEND_AVAILABLE, api_key, client, unresponsive>>

chatVars ==
    <<BACKEND_AVAILABLE, api_key, client, unresponsive, pc, message, response,
      reply, log, writers, sentimentOutcome, adviceOutcome, received>>

NoOutcome == [kind |-> "none"]
NoBody == [json |-> "none", message |-> Missing]
NoCall == [fn |-> "none"]
NoReply == [status |-> 0]
NoResponse == [text |-> PyStr(<<>>), amounts |-> <<>>, sentiment |-> "none"]

\* lines 27-35: the handlers exist only when the backend was imported
finance_utils == BACKEND_AVAILABLE
openai_ready == BACKEND_AVAILABLE /\ api_key
google_ready == BACKEND_AVAILABLE /\ client

\* The front ends run in demo mode: each imports PersonalFinanceChatbot from
\* main, main.py defines FinanceChatbot, so the import fails, BACKEND_AVAILABLE
\* is False there and chatbot is None.  get_demo_response then answers every
\* message, and it raises nothing.

\* any(word in message_lower for word in words)
AnyWordIn(words, message_lower) ==
    \E w \in 1..Len(words) : Contains(words[w], message_lower)

\* get_demo_response of a front end: the text of the first branch one of
\* whose words is in the lower-cased message, the text of the last branch
\* when there is none
demo_response(branches, default, msg) ==
    LET Answer(message_lower) ==
            LET hits == {i \in 1..Len(branches) :
                            AnyWordIn(branches[i].words, message_lower)}
            IN IF hits = {} THEN default
               ELSE branches[CHOOSE i \in hits : \A j \in hits : i <= j].text
    \* message_lower is bound through a set: its value is computed once
    IN CHOOSE text \in {Answer(message_lower) : message_lower \in {Lower(msg)}} : TRUE

\* action.split(' ', 1)[1] if ' ' in action else action, of quick_action
clean_action(action) ==
    IF \E i \in 1..Len(action) : action[i] = 32
    THEN LET n == CHOOSE i \in 1..Len(action) :
                      action[i] = 32 /\ \A j \in 1..(i - 1) : action[j] /= 32
         IN SubSeq(action, n + 1, Len(action))
    ELSE action

\* the position of the first newline character of text from position i on,
\* Len(text) + 1 when there is none
LineEnd(text, i) ==
    CHOOSE n \in i..(Len(text) + 1) :
        /\ n <= Len(text) => text[n] = 10
        /\ \A j \in i..(n - 1) : text[j] /= 10

\* the lines of text from position i on
RECURSIVE SplitFrom(_, _)
SplitFrom(text, i) ==
    LET Rest(n) == <<SubSeq(text, i, n - 1)>> \o
                   (IF n > Len(text) THEN <<>> ELSE SplitFrom(text, n + 1))
    \* n is bound through a set: its value is computed once
    IN CHOOSE lines \in {Rest(n) : n \in {LineEnd(text, i)}} : TRUE

\* the lines of a text: the pieces between its newline characters
SplitLines(text) ==
    SplitFrom(text, 1)

\* kivy_mobile_app.py:231-237  the welcome message
KivyWelcomeText ==
    <<72, 101, 108, 108, 111, 33, 32, 128075, 32, 73, 39, 109, 32, 121, 111, 117, 114, 32, 80,
      101, 114, 115, 111, 110, 97, 108, 32, 70, 105, 110, 97, 110, 99, 101, 32, 65, 115, 115,
      105, 115, 116, 97, 110, 116, 46, 10, 10, 73, 32, 99, 97, 110, 32, 104, 101, 108, 112, 32,
      121, 111, 117, 32, 119, 105, 116, 104, 58, 10, 8226, 32, 66, 117, 100, 103, 101, 116,
      105, 110, 103, 32, 97, 110, 100, 32, 101, 120, 112, 101, 110, 115, 101, 32, 116, 114, 97,
      99, 107, 105, 110, 103, 10, 8226, 32, 73, 110, 118, 101, 115, 116, 109, 101, 110, 116,
      32, 115, 116, 114, 97, 116, 101, 103, 105, 101, 115, 10, 8226, 32, 68, 101, 98, 116, 32,
      109, 97, 110, 97, 103, 101, 109, 101, 110, 116, 10, 8226, 32, 83, 97, 118, 105, 110, 103,
      32, 102, 111, 114, 32, 103, 111, 97, 108, 115, 10, 10, 87, 104, 97, 116, 32, 119, 111,
      117, 108, 100, 32, 121, 111, 117, 32, 108, 105, 107, 101, 32, 116, 111, 32, 100, 105,
      115, 99, 117, 115, 115, 32, 116, 111, 100, 97, 121, 63>>

\* kivy_mobile_app.py:271  'Typing...'
KivyTypingText ==
    <<84, 121, 112, 105, 110, 103, 46, 46, 46>>

\* kivy_mobile_app.py:178-183  the texts of the quick action buttons
KivyQuickActions ==
    <<
      <<128176, 32, 66, 117, 100, 103, 101, 116, 32, 72, 101, 108, 112>>,
      <<128200, 32, 73, 110, 118, 101, 115, 116, 109, 101, 110, 116, 32, 84, 105, 112, 115>>,
      <<128179, 32, 68, 101, 98, 116, 32, 83, 116, 114, 97, 116, 101, 103, 121>>,
      <<127968, 32, 83, 97, 118, 105, 110, 103, 32, 71, 111, 97, 108, 115>> >>

\* kivy_mobile_app.py:314-337  the branches of get_demo_response: the words looked for and
\* the text returned
KivyDemoBranches ==
    <<
      [words |-> <<<<98, 117, 100, 103, 101, 116>>, <<98, 117, 100, 103, 101, 116, 105, 110, 103>>>>,
       text |->
          <<67, 114, 101, 97, 116, 105, 110, 103, 32, 97, 32, 98, 117, 100, 103, 101, 116, 32,
            105, 115, 32, 101, 115, 115, 101, 110, 116, 105, 97, 108, 33, 32, 72, 101, 114,
            101, 39, 115, 32, 97, 32, 115, 105, 109, 112, 108, 101, 32, 97, 112, 112, 114, 111,
            97, 99, 104, 58, 10, 10, 49, 46, 32, 84, 114, 97, 99, 107, 32, 105, 110, 99, 111,
            109, 101, 32, 97, 110, 100, 32, 101, 120, 112, 101, 110, 115, 101, 115, 10, 50, 46,
            32, 85, 115, 101, 32, 53, 48, 47, 51, 48, 47, 50, 48, 32, 114, 117, 108, 101, 10,
            51, 46, 32, 83, 116, 97, 114, 116, 32, 119, 105, 116, 104, 32, 101, 115, 115, 101,
            110, 116, 105, 97, 108, 115, 10, 52, 46, 32, 83, 101, 116, 32, 114, 101, 97, 108,
            105, 115, 116, 105, 99, 32, 103, 111, 97, 108, 115, 10, 10, 78, 101, 101, 100, 32,
            104, 101, 108, 112, 32, 119, 105, 116, 104, 32, 97, 32, 115, 112, 101, 99, 105,
            102, 105, 99, 32, 99, 97, 116, 101, 103, 111, 114, 121, 63>>],
      [words |-> <<<<105, 110, 118, 101, 115, 116>>, <<105, 110, 118, 101, 115, 116, 109, 101, 110, 116>>>>,
       text |->
          <<71, 114, 101, 97, 116, 32, 105, 110, 118, 101, 115, 116, 105, 110, 103, 32, 113,
            117, 101, 115, 116, 105, 111, 110, 33, 32, 70, 111, 114, 32, 98, 101, 103, 105,
            110, 110, 101, 114, 115, 58, 10, 10, 49, 46, 32, 66, 117, 105, 108, 100, 32, 101,
            109, 101, 114, 103, 101, 110, 99, 121, 32, 102, 117, 110, 100, 32, 102, 105, 114,
            115, 116, 10, 50, 46, 32, 67, 111, 110, 115, 105, 100, 101, 114, 32, 105, 110, 100,
            101, 120, 32, 102, 117, 110, 100, 115, 10, 51, 46, 32, 85, 115, 101, 32, 52, 48,
            49, 40, 107, 41, 32, 109, 97, 116, 99, 104, 105, 110, 103, 10, 52, 46, 32, 68, 105,
            118, 101, 114, 115, 105, 102, 121, 32, 112, 111, 114, 116, 102, 111, 108, 105, 111,
            10, 53, 46, 32, 84, 104, 105, 110, 107, 32, 108, 111, 110, 103, 45, 116, 101, 114,
            109, 10, 10, 87, 97, 110, 116, 32, 115, 112, 101, 99, 105, 102, 105, 99, 32, 105,
            110, 118, 101, 115, 116, 109, 101, 110, 116, 32, 97, 100, 118, 105, 99, 101, 63>>],
      [words |-> <<<<100, 101, 98, 116>>, <<108, 111, 97, 110>>>>,
       text |->
          <<68, 101, 98, 116, 32, 109, 97, 110, 97, 103, 101, 109, 101, 110, 116, 32, 115, 116,
            114, 97, 116, 101, 103, 105, 101, 115, 58, 10, 10, 49, 46, 32, 76, 105, 115, 116,
            32, 97, 108, 108, 32, 100, 101, 98, 116, 115, 10, 50, 46, 32, 80, 97, 121, 32, 109,
            105, 110, 105, 109, 117, 109, 115, 32, 102, 105, 114, 115, 116, 10, 51, 46, 32, 85,
            115, 101, 32, 97, 118, 97, 108, 97, 110, 99, 104, 101, 47, 115, 110, 111, 119, 98,
            97, 108, 108, 32, 109, 101, 116, 104, 111, 100, 10, 52, 46, 32, 65, 118, 111, 105,
            100, 32, 110, 101, 119, 32, 100, 101, 98, 116, 10, 10, 78, 101, 101, 100, 32, 104,
            101, 108, 112, 32, 112, 114, 105, 111, 114, 105, 116, 105, 122, 105, 110, 103, 32,
            100, 101, 98, 116, 115, 63>>] >>

\* kivy_mobile_app.py:340-346  the text of the last branch of get_demo_response
KivyDemoDefault ==
    <<73, 39, 109, 32, 104, 101, 114, 101, 32, 116, 111, 32, 104, 101, 108, 112, 32, 119, 105,
      116, 104, 32, 121, 111, 117, 114, 32, 102, 105, 110, 97, 110, 99, 101, 115, 33, 10, 10,
      84, 114, 121, 32, 97, 115, 107, 105, 110, 103, 32, 97, 98, 111, 117, 116, 58, 10, 128176,
      32, 66, 117, 100, 103, 101, 116, 105, 110, 103, 32, 116, 105, 112, 115, 10, 128200, 32,
      73, 110, 118, 101, 115, 116, 109, 101, 110, 116, 32, 97, 100, 118, 105, 99, 101, 10,
      128179, 32, 68, 101, 98, 116, 32, 115, 116, 114, 97, 116, 101, 103, 105, 101, 115, 10,
      127968, 32, 83, 97, 118, 105, 110, 103, 32, 103, 111, 97, 108, 115, 10, 10, 87, 104, 97,
      116, 39, 115, 32, 121, 111, 117, 114, 32, 109, 97, 105, 110, 32, 102, 105, 110, 97, 110,
      99, 105, 97, 108, 32, 99, 111, 110, 99, 101, 114, 110, 63>>

\* ChatScreen.get_demo_response
kivy_get_demo_response(msg) ==
    demo_response(KivyDemoBranches, KivyDemoDefault, msg)

\* a bubble of the Kivy chat: MessageBubble(sender, message); of is the send
\* the message belongs to, 0 for the welcome message
Bubble(sender, msg, of) ==
    [sender |-> sender, message |-> msg, of |-> of]

\* ChatScreen.__init__: the chat holds the welcome message
KivyInit ==
    /\ chat_layout = <<Bubble("Assistant", KivyWelcomeText, 0)>>
    /\ kivy_threads = {}
    /\ kivy_clock = <<>>
    /\ kivy_sent = 0

\* tkinter_app.py:207-209  the welcome message
TkWelcomeText ==
    <<72, 101, 108, 108, 111, 33, 32, 63743, 252, 235, 227, 32, 73, 39, 109, 32, 121, 111, 117,
      114, 32, 80, 101, 114, 115, 111, 110, 97, 108, 32, 70, 105, 110, 97, 110, 99, 101, 32,
      65, 115, 115, 105, 115, 116, 97, 110, 116, 46, 32, 73, 32, 99, 97, 110, 32, 104, 101,
      108, 112, 32, 121, 111, 117, 32, 119, 105, 116, 104, 32, 98, 117, 100, 103, 101, 116,
      105, 110, 103, 44, 32, 105, 110, 118, 101, 115, 116, 105, 110, 103, 44, 32, 100, 101, 98,
      116, 32, 109, 97, 110, 97, 103, 101, 109, 101, 110, 116, 44, 32, 97, 110, 100, 32, 109,
      111, 114, 101, 33, 10, 10, 89, 111, 117, 32, 99, 97, 110, 32, 116, 121, 112, 101, 32, 97,
      32, 113, 117, 101, 115, 116, 105, 111, 110, 32, 111, 114, 32, 117, 115, 101, 32, 116,
      104, 101, 32, 113, 117, 105, 99, 107, 32, 97, 99, 116, 105, 111, 110, 32, 98, 117, 116,
      116, 111, 110, 115, 32, 98, 101, 108, 111, 119, 46>>

\* tkinter_app.py:288  'Typing...'
TkTypingText ==
    <<84, 121, 112, 105, 110, 103, 46, 46, 46>>

\* tkinter_app.py:154-159  the texts of the quick action buttons
TkQuickActions ==
    <<
      <<63743, 252, 237, 8734, 32, 72, 101, 108, 112, 32, 109, 101, 32, 99, 114, 101, 97, 116,
        101, 32, 97, 32, 98, 117, 100, 103, 101, 116>>,
      <<63743, 252, 236, 228, 32, 73, 110, 118, 101, 115, 116, 109, 101, 110, 116, 32, 97, 100,
        118, 105, 99, 101, 32, 102, 111, 114, 32, 98, 101, 103, 105, 110, 110, 101, 114, 115>>,
      <<63743, 252, 237, 8805, 32, 83, 104, 111, 117, 108, 100, 32, 73, 32, 112, 97, 121, 32,
        111, 102, 102, 32, 100, 101, 98, 116, 32, 102, 105, 114, 115, 116, 63>>,
      <<63743, 252, 232, 8224, 32, 83, 97, 118, 105, 110, 103, 32, 102, 111, 114, 32, 97, 32,
        104, 111, 117, 115, 101, 32, 100, 111, 119, 110, 32, 112, 97, 121, 109, 101, 110, 116>> >>

\* tkinter_app.py:310-334  the branches of get_demo_response: the words looked for and
\* the text returned
TkDemoBranches ==
    <<
      [words |-> <<<<98, 117, 100, 103, 101, 116>>, <<98, 117, 100, 103, 101, 116, 105, 110, 103>>>>,
       text |->
          <<67, 114, 101, 97, 116, 105, 110, 103, 32, 97, 32, 98, 117, 100, 103, 101, 116, 32,
            105, 115, 32, 101, 115, 115, 101, 110, 116, 105, 97, 108, 32, 102, 111, 114, 32,
            102, 105, 110, 97, 110, 99, 105, 97, 108, 32, 104, 101, 97, 108, 116, 104, 33, 32,
            72, 101, 114, 101, 39, 115, 32, 97, 32, 115, 105, 109, 112, 108, 101, 32, 97, 112,
            112, 114, 111, 97, 99, 104, 58, 10, 10, 49, 46, 32, 84, 114, 97, 99, 107, 32, 121,
            111, 117, 114, 32, 105, 110, 99, 111, 109, 101, 32, 97, 110, 100, 32, 101, 120,
            112, 101, 110, 115, 101, 115, 32, 102, 111, 114, 32, 97, 32, 109, 111, 110, 116,
            104, 10, 50, 46, 32, 85, 115, 101, 32, 116, 104, 101, 32, 53, 48, 47, 51, 48, 47,
            50, 48, 32, 114, 117, 108, 101, 58, 32, 53, 48, 37, 32, 110, 101, 101, 100, 115,
            44, 32, 51, 48, 37, 32, 119, 97, 110, 116, 115, 44, 32, 50, 48, 37, 32, 115, 97,
            118, 105, 110, 103, 115, 10, 51, 46, 32, 83, 116, 97, 114, 116, 32, 119, 105, 116,
            104, 32, 101, 115, 115, 101, 110, 116, 105, 97, 108, 32, 99, 97, 116, 101, 103,
            111, 114, 105, 101, 115, 58, 32, 104, 111, 117, 115, 105, 110, 103, 44, 32, 102,
            111, 111, 100, 44, 32, 116, 114, 97, 110, 115, 112, 111, 114, 116, 97, 116, 105,
            111, 110, 10, 52, 46, 32, 83, 101, 116, 32, 114, 101, 97, 108, 105, 115, 116, 105,
            99, 32, 115, 97, 118, 105, 110, 103, 115, 32, 103, 111, 97, 108, 115, 10, 10, 87,
            111, 117, 108, 100, 32, 121, 111, 117, 32, 108, 105, 107, 101, 32, 104, 101, 108,
            112, 32, 119, 105, 116, 104, 32, 97, 110, 121, 32, 115, 112, 101, 99, 105, 102,
            105, 99, 32, 98, 117, 100, 103, 101, 116, 105, 110, 103, 32, 99, 97, 116, 101, 103,
            111, 114, 121, 63>>],
      [words |-> <<<<105, 110, 118, 101, 115, 116>>, <<105, 110, 118, 101, 115, 116, 109, 101, 110, 116>>>>,
       text |->
          <<71, 114, 101, 97, 116, 32, 113, 117, 101, 115, 116, 105, 111, 110, 32, 97, 98, 111,
            117, 116, 32, 105, 110, 118, 101, 115, 116, 105, 110, 103, 33, 32, 70, 111, 114,
            32, 98, 101, 103, 105, 110, 110, 101, 114, 115, 44, 32, 99, 111, 110, 115, 105,
            100, 101, 114, 58, 10, 10, 49, 46, 32, 83, 116, 97, 114, 116, 32, 119, 105, 116,
            104, 32, 97, 110, 32, 101, 109, 101, 114, 103, 101, 110, 99, 121, 32, 102, 117,
            110, 100, 32, 40, 51, 45, 54, 32, 109, 111, 110, 116, 104, 115, 32, 101, 120, 112,
            101, 110, 115, 101, 115, 41, 10, 50, 46, 32, 67, 111, 110, 115, 105, 100, 101, 114,
            32, 108, 111, 119, 45, 99, 111, 115, 116, 32, 105, 110, 100, 101, 120, 32, 102,
            117, 110, 100, 115, 32, 111, 114, 32, 69, 84, 70, 115, 10, 51, 46, 32, 84, 97, 107,
            101, 32, 97, 100, 118, 97, 110, 116, 97, 103, 101, 32, 111, 102, 32, 101, 109, 112,
            108, 111, 121, 101, 114, 32, 52, 48, 49, 40, 107, 41, 32, 109, 97, 116, 99, 104,
            105, 110, 103, 10, 52, 46, 32, 68, 105, 118, 101, 114, 115, 105, 102, 121, 32, 121,
            111, 117, 114, 32, 112, 111, 114, 116, 102, 111, 108, 105, 111, 10, 53, 46, 32, 84,
            104, 105, 110, 107, 32, 108, 111, 110, 103, 45, 116, 101, 114, 109, 32, 97, 110,
            100, 32, 100, 111, 110, 39, 116, 32, 112, 97, 110, 105, 99, 32, 100, 117, 114, 105,
            110, 103, 32, 109, 97, 114, 107, 101, 116, 32, 100, 105, 112, 115, 10, 10, 82, 101,
            109, 101, 109, 98, 101, 114, 58, 32, 105, 110, 118, 101, 115, 116, 32, 111, 110,
            108, 121, 32, 119, 104, 97, 116, 32, 121, 111, 117, 32, 99, 97, 110, 32, 97, 102,
            102, 111, 114, 100, 32, 116, 111, 32, 108, 111, 115, 101, 33>>],
      [words |-> <<<<100, 101, 98, 116>>, <<108, 111, 97, 110>>>>,
       text |->
          <<77, 97, 110, 97, 103, 105, 110, 103, 32, 100, 101, 98, 116, 32, 101, 102, 102, 101,
            99, 116, 105, 118, 101, 108, 121, 32, 105, 115, 32, 99, 114, 117, 99, 105, 97, 108,
            33, 32, 72, 101, 114, 101, 39, 115, 32, 109, 121, 32, 97, 100, 118, 105, 99, 101,
            58, 10, 10, 49, 46, 32, 76, 105, 115, 116, 32, 97, 108, 108, 32, 100, 101, 98, 116,
            115, 32, 119, 105, 116, 104, 32, 98, 97, 108, 97, 110, 99, 101, 115, 32, 97, 110,
            100, 32, 105, 110, 116, 101, 114, 101, 115, 116, 32, 114, 97, 116, 101, 115, 10,
            50, 46, 32, 80, 97, 121, 32, 109, 105, 110, 105, 109, 117, 109, 115, 32, 111, 110,
            32, 97, 108, 108, 32, 100, 101, 98, 116, 115, 10, 51, 46, 32, 85, 115, 101, 32,
            100, 101, 98, 116, 32, 97, 118, 97, 108, 97, 110, 99, 104, 101, 32, 40, 104, 105,
            103, 104, 101, 115, 116, 32, 105, 110, 116, 101, 114, 101, 115, 116, 32, 102, 105,
            114, 115, 116, 41, 32, 111, 114, 32, 115, 110, 111, 119, 98, 97, 108, 108, 32, 40,
            115, 109, 97, 108, 108, 101, 115, 116, 32, 98, 97, 108, 97, 110, 99, 101, 32, 102,
            105, 114, 115, 116, 41, 10, 52, 46, 32, 67, 111, 110, 115, 105, 100, 101, 114, 32,
            100, 101, 98, 116, 32, 99, 111, 110, 115, 111, 108, 105, 100, 97, 116, 105, 111,
            110, 32, 105, 102, 32, 105, 116, 32, 108, 111, 119, 101, 114, 115, 32, 114, 97,
            116, 101, 115, 10, 53, 46, 32, 65, 118, 111, 105, 100, 32, 116, 97, 107, 105, 110,
            103, 32, 111, 110, 32, 110, 101, 119, 32, 100, 101, 98, 116, 32, 119, 104, 105,
            108, 101, 32, 112, 97, 121, 105, 110, 103, 32, 111, 102, 102, 32, 101, 120, 105,
            115, 116, 105, 110, 103, 32, 100, 101, 98, 116, 10, 10, 87, 111, 117, 108, 100, 32,
            121, 111, 117, 32, 108, 105, 107, 101, 32, 104, 101, 108, 112, 32, 112, 114, 105,
            111, 114, 105, 116, 105, 122, 105, 110, 103, 32, 121, 111, 117, 114, 32, 115, 112,
            101, 99, 105, 102, 105, 99, 32, 100, 101, 98, 116, 115, 63>>] >>

\* tkinter_app.py:337-343  the text of the last branch of get_demo_response
TkDemoDefault ==
    <<84, 104, 97, 110, 107, 115, 32, 102, 111, 114, 32, 121, 111, 117, 114, 32, 113, 117, 101,
      115, 116, 105, 111, 110, 33, 32, 73, 32, 99, 97, 110, 32, 104, 101, 108, 112, 32, 119,
      105, 116, 104, 58, 10, 10, 63743, 252, 237, 8734, 32, 66, 117, 100, 103, 101, 116, 105,
      110, 103, 32, 97, 110, 100, 32, 101, 120, 112, 101, 110, 115, 101, 32, 116, 114, 97, 99,
      107, 105, 110, 103, 10, 63743, 252, 236, 224, 32, 73, 110, 118, 101, 115, 116, 109, 101,
      110, 116, 32, 115, 116, 114, 97, 116, 101, 103, 105, 101, 115, 32, 97, 110, 100, 32, 112,
      111, 114, 116, 102, 111, 108, 105, 111, 32, 97, 100, 118, 105, 99, 101, 10, 63743, 252,
      237, 8805, 32, 68, 101, 98, 116, 32, 109, 97, 110, 97, 103, 101, 109, 101, 110, 116, 32,
      97, 110, 100, 32, 112, 97, 121, 111, 102, 102, 32, 115, 116, 114, 97, 116, 101, 103, 105,
      101, 115, 10, 63743, 252, 232, 8224, 32, 83, 97, 118, 105, 110, 103, 32, 102, 111, 114,
      32, 109, 97, 106, 111, 114, 32, 112, 117, 114, 99, 104, 97, 115, 101, 115, 10, 63743,
      252, 236, 228, 32, 70, 105, 110, 97, 110, 99, 105, 97, 108, 32, 112, 108, 97, 110, 110,
      105, 110, 103, 32, 97, 110, 100, 32, 103, 111, 97, 108, 32, 115, 101, 116, 116, 105, 110,
      103, 10, 10, 87, 104, 97, 116, 32, 115, 112, 101, 99, 105, 102, 105, 99, 32, 102, 105,
      110, 97, 110, 99, 105, 97, 108, 32, 116, 111, 112, 105, 99, 32, 119, 111, 117, 108, 100,
      32, 121, 111, 117, 32, 108, 105, 107, 101, 32, 116, 111, 32, 101, 120, 112, 108, 111,
      114, 101, 63>>

\* tkinter_app.py:360-361  the text shown for an error entry, around the error
TkErrorPrefix ==
    <<83, 111, 114, 114, 121, 44, 32, 73, 32, 101, 110, 99, 111, 117, 110, 116, 101, 114, 101,
      100, 32, 97, 110, 32, 101, 114, 114, 111, 114, 58, 32>>

TkErrorSuffix ==
    <<10, 80, 108, 101, 97, 115, 101, 32, 116, 114, 121, 32, 97, 103, 97, 105, 110, 32, 111,
      114, 32, 99, 104, 101, 99, 107, 32, 121, 111, 117, 114, 32, 65, 80, 73, 32, 99, 111, 110,
      102, 105, 103, 117, 114, 97, 116, 105, 111, 110, 46>>

\* ModernChatGUI.get_demo_response
tk_get_demo_response(msg) ==
    demo_response(TkDemoBranches, TkDemoDefault, msg)

\* a line of the Tkinter chat text: the header line of a message (the sender
\* and the time), a line of the message, or the empty line that follows the
\* message; of is the send it belongs to, 0 for the welcome message
Line(kind, sender, text, of) ==
    [kind |-> kind, sender |-> sender, text |-> text, of |-> of]

\* ModernChatGUI.add_message in demo mode: the header line, the lines of the
\* message and an empty line are inserted at the end
tk_add_message(display, sender, msg, of) ==
    LET Inserted(lines) ==
            <<Line("header", sender, <<>>, of)>>
                \o [i \in 1..Len(lines) |-> Line("message", sender, lines[i], of)]
                \o <<Line("blank", sender, <<>>, of)>>
    \* lines is bound through a set: its value is computed once
    IN display \o (CHOOSE new \in {Inserted(lines) : lines \in {SplitLines(msg)}} : TRUE)

\* ModernChatGUI.__init__ in demo mode: the welcome message is shown, the
\* queue is empty and the poll is scheduled
TkInit ==
    /\ response_queue = <<>>
    /\ tk_threads = {}
    /\ chat_display = tk_add_message(<<>>, "Assistant", TkWelcomeText, 0)
    /\ tk_armed = TRUE
    /\ tk_sent = 0
    /\ tk_put = <<>>
    /\ tk_displayed = <<>>

\* fastapi_frontend.py:121-121  the welcome message
FastWelcomeText ==
    <<72, 101, 108, 108, 111, 33, 32, 63743, 252, 235, 227, 32, 73, 39, 109, 32, 121, 111, 117,
      114, 32, 80, 101, 114, 115, 111, 110, 97, 108, 32, 70, 105, 110, 97, 110, 99, 101, 32,
      65, 115, 115, 105, 115, 116, 97, 110, 116, 46, 32, 73, 32, 99, 97, 110, 32, 104, 101,
      108, 112, 32, 121, 111, 117, 32, 119, 105, 116, 104, 32, 98, 117, 100, 103, 101, 116,
      105, 110, 103, 44, 32, 105, 110, 118, 101, 115, 116, 105, 110, 103, 44, 32, 100, 101, 98,
      116, 32, 109, 97, 110, 97, 103, 101, 109, 101, 110, 116, 44, 32, 97, 110, 100, 32, 109,
      111, 114, 101, 33, 32, 87, 104, 97, 116, 32, 119, 111, 117, 108, 100, 32, 121, 111, 117,
      32, 108, 105, 107, 101, 32, 116, 111, 32, 100, 105, 115, 99, 117, 115, 115, 32, 116, 111,
      100, 97, 121, 63>>

\* fastapi_frontend.py:65-98  the branches of get_demo_response: the words looked for and
\* the text returned
FastDemoBranches ==
    <<
      [words |-> <<<<98, 117, 100, 103, 101, 116>>, <<98, 117, 100, 103, 101, 116, 105, 110, 103>>>>,
       text |->
          <<67, 114, 101, 97, 116, 105, 110, 103, 32, 97, 32, 98, 117, 100, 103, 101, 116, 32,
            105, 115, 32, 101, 115, 115, 101, 110, 116, 105, 97, 108, 32, 102, 111, 114, 32,
            102, 105, 110, 97, 110, 99, 105, 97, 108, 32, 104, 101, 97, 108, 116, 104, 33, 32,
            72, 101, 114, 101, 39, 115, 32, 97, 32, 115, 105, 109, 112, 108, 101, 32, 97, 112,
            112, 114, 111, 97, 99, 104, 58, 10, 10, 8218, 196, 162, 32, 84, 114, 97, 99, 107,
            32, 121, 111, 117, 114, 32, 105, 110, 99, 111, 109, 101, 32, 97, 110, 100, 32, 101,
            120, 112, 101, 110, 115, 101, 115, 32, 102, 111, 114, 32, 97, 32, 109, 111, 110,
            116, 104, 10, 8218, 196, 162, 32, 85, 115, 101, 32, 116, 104, 101, 32, 53, 48, 47,
            51, 48, 47, 50, 48, 32, 114, 117, 108, 101, 58, 32, 53, 48, 37, 32, 110, 101, 101,
            100, 115, 44, 32, 51, 48, 37, 32, 119, 97, 110, 116, 115, 44, 32, 50, 48, 37, 32,
            115, 97, 118, 105, 110, 103, 115, 10, 8218, 196, 162, 32, 83, 116, 97, 114, 116,
            32, 119, 105, 116, 104, 32, 101, 115, 115, 101, 110, 116, 105, 97, 108, 32, 99, 97,
            116, 101, 103, 111, 114, 105, 101, 115, 58, 32, 104, 111, 117, 115, 105, 110, 103,
            44, 32, 102, 111, 111, 100, 44, 32, 116, 114, 97, 110, 115, 112, 111, 114, 116, 97,
            116, 105, 111, 110, 10, 8218, 196, 162, 32, 83, 101, 116, 32, 114, 101, 97, 108,
            105, 115, 116, 105, 99, 32, 115, 97, 118, 105, 110, 103, 115, 32, 103, 111, 97,
            108, 115, 10, 10, 87, 111, 117, 108, 100, 32, 121, 111, 117, 32, 108, 105, 107,
            101, 32, 104, 101, 108, 112, 32, 119, 105, 116, 104, 32, 97, 110, 121, 32, 115,
            112, 101, 99, 105, 102, 105, 99, 32, 98, 117, 100, 103, 101, 116, 105, 110, 103,
            32, 99, 97, 116, 101, 103, 111, 114, 121, 63>>],
      [words |-> <<<<105, 110, 118, 101, 115, 116>>, <<105, 110, 118, 101, 115, 116, 109, 101, 110, 116>>>>,
       text |->
          <<71, 114, 101, 97, 116, 32, 113, 117, 101, 115, 116, 105, 111, 110, 32, 97, 98, 111,
            117, 116, 32, 105, 110, 118, 101, 115, 116, 105, 110, 103, 33, 32, 70, 111, 114,
            32, 98, 101, 103, 105, 110, 110, 101, 114, 115, 44, 32, 99, 111, 110, 115, 105,
            100, 101, 114, 58, 10, 10, 8218, 196, 162, 32, 83, 116, 97, 114, 116, 32, 119, 105,
            116, 104, 32, 97, 110, 32, 101, 109, 101, 114, 103, 101, 110, 99, 121, 32, 102,
            117, 110, 100, 32, 40, 51, 45, 54, 32, 109, 111, 110, 116, 104, 115, 32, 101, 120,
            112, 101, 110, 115, 101, 115, 41, 10, 8218, 196, 162, 32, 67, 111, 110, 115, 105,
            100, 101, 114, 32, 108, 111, 119, 45, 99, 111, 115, 116, 32, 105, 110, 100, 101,
            120, 32, 102, 117, 110, 100, 115, 32, 111, 114, 32, 69, 84, 70, 115, 10, 8218, 196,
            162, 32, 84, 97, 107, 101, 32, 97, 100, 118, 97, 110, 116, 97, 103, 101, 32, 111,
            102, 32, 101, 109, 112, 108, 111, 121, 101, 114, 32, 52, 48, 49, 40, 107, 41, 32,
            109, 97, 116, 99, 104, 105, 110, 103, 10, 8218, 196, 162, 32, 68, 105, 118, 101,
            114, 115, 105, 102, 121, 32, 121, 111, 117, 114, 32, 112, 111, 114, 116, 102, 111,
            108, 105, 111, 10, 8218, 196, 162, 32, 84, 104, 105, 110, 107, 32, 108, 111, 110,
            103, 45, 116, 101, 114, 109, 32, 97, 110, 100, 32, 100, 111, 110, 39, 116, 32, 112,
            97, 110, 105, 99, 32, 100, 117, 114, 105, 110, 103, 32, 109, 97, 114, 107, 101,
            116, 32, 100, 105, 112, 115, 10, 10, 82, 101, 109, 101, 109, 98, 101, 114, 58, 32,
            105, 110, 118, 101, 115, 116, 32, 111, 110, 108, 121, 32, 119, 104, 97, 116, 32,
            121, 111, 117, 32, 99, 97, 110, 32, 97, 102, 102, 111, 114, 100, 32, 116, 111, 32,
            108, 111, 115, 101, 33>>],
      [words |-> <<<<100, 101, 98, 116>>, <<108, 111, 97, 110>>>>,
       text |->
          <<77, 97, 110, 97, 103, 105, 110, 103, 32, 100, 101, 98, 116, 32, 101, 102, 102, 101,
            99, 116, 105, 118, 101, 108, 121, 32, 105, 115, 32, 99, 114, 117, 99, 105, 97, 108,
            33, 32, 72, 101, 114, 101, 39, 115, 32, 109, 121, 32, 97, 100, 118, 105, 99, 101,
            58, 10, 10, 8218, 196, 162, 32, 76, 105, 115, 116, 32, 97, 108, 108, 32, 100, 101,
            98, 116, 115, 32, 119, 105, 116, 104, 32, 98, 97, 108, 97, 110, 99, 101, 115, 32,
            97, 110, 100, 32, 105, 110, 116, 101, 114, 101, 115, 116, 32, 114, 97, 116, 101,
            115, 10, 8218, 196, 162, 32, 80, 97, 121, 32, 109, 105, 110, 105, 109, 117, 109,
            115, 32, 111, 110, 32, 97, 108, 108, 32, 100, 101, 98, 116, 115, 10, 8218, 196,
            162, 32, 85, 115, 101, 32, 100, 101, 98, 116, 32, 97, 118, 97, 108, 97, 110, 99,
            104, 101, 32, 40, 104, 105, 103, 104, 101, 115, 116, 32, 105, 110, 116, 101, 114,
            101, 115, 116, 32, 102, 105, 114, 115, 116, 41, 32, 111, 114, 32, 115, 110, 111,
            119, 98, 97, 108, 108, 32, 40, 115, 109, 97, 108, 108, 101, 115, 116, 32, 98, 97,
            108, 97, 110, 99, 101, 32, 102, 105, 114, 115, 116, 41, 10, 8218, 196, 162, 32, 67,
            111, 110, 115, 105, 100, 101, 114, 32, 100, 101, 98, 116, 32, 99, 111, 110, 115,
            111, 108, 105, 100, 97, 116, 105, 111, 110, 32, 105, 102, 32, 105, 116, 32, 108,
            111, 119, 101, 114, 115, 32, 114, 97, 116, 101, 115, 10, 8218, 196, 162, 32, 65,
            118, 111, 105, 100, 32, 116, 97, 107, 105, 110, 103, 32, 111, 110, 32, 110, 101,
            119, 32, 100, 101, 98, 116, 32, 119, 104, 105, 108, 101, 32, 112, 97, 121, 105,
            110, 103, 32, 111, 102, 102, 32, 101, 120, 105, 115, 116, 105, 110, 103, 32, 100,
            101, 98, 116, 10, 10, 87, 111, 117, 108, 100, 32, 121, 111, 117, 32, 108, 105, 107,
            101, 32, 104, 101, 108, 112, 32, 112, 114, 105, 111, 114, 105, 116, 105, 122, 105,
            110, 103, 32, 121, 111, 117, 114, 32, 115, 112, 101, 99, 105, 102, 105, 99, 32,
            100, 101, 98, 116, 115, 63>>],
      [words |-> <<<<115, 97, 118, 101>>, <<115, 97, 118, 105, 110, 103>>>>,
       text |->
          <<83, 109, 97, 114, 116, 32, 115, 97, 118, 105, 110, 103, 32, 115, 116, 114, 97, 116,
            101, 103, 105, 101, 115, 32, 99, 97, 110, 32, 97, 99, 99, 101, 108, 101, 114, 97,
            116, 101, 32, 121, 111, 117, 114, 32, 102, 105, 110, 97, 110, 99, 105, 97, 108, 32,
            103, 111, 97, 108, 115, 58, 10, 10, 8218, 196, 162, 32, 65, 117, 116, 111, 109, 97,
            116, 101, 32, 115, 97, 118, 105, 110, 103, 115, 32, 45, 32, 112, 97, 121, 32, 121,
            111, 117, 114, 115, 101, 108, 102, 32, 102, 105, 114, 115, 116, 10, 8218, 196, 162,
            32, 85, 115, 101, 32, 104, 105, 103, 104, 45, 121, 105, 101, 108, 100, 32, 115, 97,
            118, 105, 110, 103, 115, 32, 97, 99, 99, 111, 117, 110, 116, 115, 10, 8218, 196,
            162, 32, 83, 101, 116, 32, 115, 112, 101, 99, 105, 102, 105, 99, 44, 32, 109, 101,
            97, 115, 117, 114, 97, 98, 108, 101, 32, 115, 97, 118, 105, 110, 103, 115, 32, 103,
            111, 97, 108, 115, 10, 8218, 196, 162, 32, 84, 114, 97, 99, 107, 32, 121, 111, 117,
            114, 32, 112, 114, 111, 103, 114, 101, 115, 115, 32, 114, 101, 103, 117, 108, 97,
            114, 108, 121, 10, 8218, 196, 162, 32, 67, 111, 110, 115, 105, 100, 101, 114, 32,
            116, 104, 101, 32, 53, 50, 45, 119, 101, 101, 107, 32, 115, 97, 118, 105, 110, 103,
            115, 32, 99, 104, 97, 108, 108, 101, 110, 103, 101, 10, 10, 87, 104, 97, 116, 32,
            97, 114, 101, 32, 121, 111, 117, 32, 115, 97, 118, 105, 110, 103, 32, 102, 111,
            114, 63, 32, 73, 32, 99, 97, 110, 32, 104, 101, 108, 112, 32, 121, 111, 117, 32,
            99, 114, 101, 97, 116, 101, 32, 97, 32, 112, 108, 97, 110, 33>>] >>

\* fastapi_frontend.py:101-107  the text of the last branch of get_demo_response
FastDemoDefault ==
    <<84, 104, 97, 110, 107, 115, 32, 102, 111, 114, 32, 121, 111, 117, 114, 32, 113, 117, 101,
      115, 116, 105, 111, 110, 33, 32, 73, 32, 99, 97, 110, 32, 104, 101, 108, 112, 32, 119,
      105, 116, 104, 58, 10, 10, 63743, 252, 237, 8734, 32, 66, 117, 100, 103, 101, 116, 105,
      110, 103, 32, 97, 110, 100, 32, 101, 120, 112, 101, 110, 115, 101, 32, 116, 114, 97, 99,
      107, 105, 110, 103, 10, 63743, 252, 236, 224, 32, 73, 110, 118, 101, 115, 116, 109, 101,
      110, 116, 32, 115, 116, 114, 97, 116, 101, 103, 105, 101, 115, 32, 97, 110, 100, 32, 112,
      111, 114, 116, 102, 111, 108, 105, 111, 32, 97, 100, 118, 105, 99, 101, 10, 63743, 252,
      237, 8805, 32, 68, 101, 98, 116, 32, 109, 97, 110, 97, 103, 101, 109, 101, 110, 116, 32,
      97, 110, 100, 32, 112, 97, 121, 111, 102, 102, 32, 115, 116, 114, 97, 116, 101, 103, 105,
      101, 115, 10, 63743, 252, 232, 8224, 32, 83, 97, 118, 105, 110, 103, 32, 102, 111, 114,
      32, 109, 97, 106, 111, 114, 32, 112, 117, 114, 99, 104, 97, 115, 101, 115, 10, 63743,
      252, 236, 228, 32, 70, 105, 110, 97, 110, 99, 105, 97, 108, 32, 112, 108, 97, 110, 110,
      105, 110, 103, 32, 97, 110, 100, 32, 103, 111, 97, 108, 32, 115, 101, 116, 116, 105, 110,
      103, 10, 10, 87, 104, 97, 116, 32, 115, 112, 101, 99, 105, 102, 105, 99, 32, 102, 105,
      110, 97, 110, 99, 105, 97, 108, 32, 116, 111, 112, 105, 99, 32, 119, 111, 117, 108, 100,
      32, 121, 111, 117, 32, 108, 105, 107, 101, 32, 116, 111, 32, 101, 120, 112, 108, 111,
      114, 101, 63>>

\* get_demo_response of fastapi_frontend.py
get_demo_response(msg) ==
    demo_response(FastDemoBranches, FastDemoDefault, msg)

\* no conversation is stored
NoConversation == [exists |-> FALSE, entries |-> <<>>]
NoOperation == [op |-> "none"]

\* fastapi_frontend.py after import: conversations = {}
FastInit ==
    /\ conversations = NoConversation
    /\ fast_last = NoOperation

\* the front ends after construction
FrontInit ==
    /\ KivyInit
    /\ TkInit
    /\ FastInit

Init ==
    /\ FrontInit
    /\ BACKEND_AVAILABLE \in BOOLEAN
    /\ api_key \in BOOLEAN
    /\ client \in BOOLEAN
    /\ (~BACKEND_AVAILABLE) => (~api_key /\ ~client)
    /\ unresponsive \in SUBSET Services
    /\ pc = [r \in Requests |-> "idle"]
    /\ message = [r \in Requests |-> <<>>]
    /\ response = [r \in Requests |-> NoResponse]
    /\ reply = [r \in Requests |-> NoReply]
    /\ log = [r \in Requests |-> <<>>]
    /\ writers = [r \in Requests |-> <<>>]
    /\ sentimentOutcome = [r \in Requests |-> NoOutcome]
    /\ adviceOutcome = [r \in Requests |-> NoOutcome]
    /\ received = [r \in Requests |-> NoBody]
    /\ call = NoCall

\* line 111: jsonify(response); the timestamp, read from the clock, is left out
OkReply(resp) ==
    [status |-> 200, text |-> resp.text, amounts |-> resp.amounts,
     sentiment |-> resp.sentiment, error |-> "none"]

\* line 66
RejectReply ==
    [status |-> 400, text |-> Missing, amounts |-> <<>>,
     sentiment |-> "none", error |-> "Message is required"]

\* lines 113-123
ErrorReply(e) ==
    [status |-> 500, text |-> PyStr(ApologyText), amounts |-> <<>>,
     sentiment |-> "neutral", error |-> e]

\* line 100-102: the amount summary
AmountSummary(amounts) ==
    SummaryPrefix
        \o Join(CommaSpace, [k \in 1..Len(amounts) |-> format_currency(amounts[k])])

\* UseFallback that also appends the amount summary to the fallback text
UseFallback_WithSummary(msg, resp, lg, wr) ==
    LET text == IF Len(resp.amounts) > 0
                THEN generate_fallback_response(msg) \o AmountSummary(resp.amounts)
                ELSE generate_fallback_response(msg)
        resp2 == [resp EXCEPT !.text = PyStr(text)]
    IN [pc |-> "done", response |-> resp2, reply |-> OkReply(resp2),
        log |-> lg \o <<"fallback", "reply">>,
        writers |-> Append(wr, "fallback")]

\* UseFallback that words the text after the sentiment found: a message
\* found negative gets the apology before the fallback text
UseFallback_Mood(msg, resp, lg, wr) ==
    LET resp2 == [resp EXCEPT !.text =
                     PyStr((IF resp.sentiment = "negative" THEN ApologyText
                            ELSE <<>>) \o generate_fallback_response(msg))]
    IN [pc |-> "done", response |-> resp2, reply |-> OkReply(resp2),
        log |-> lg \o <<"fallback", "reply">>,
        writers |-> Append(wr, "fallback")]

\* lines 106, 109 and 111: the fallback text becomes the reply text
UseFallback(msg, resp, lg, wr) ==
    LET resp2 == [resp EXCEPT !.text = PyStr(generate_fallback_response(msg))]
    IN [pc |-> "done", response |-> resp2, reply |-> OkReply(resp2),
        log |-> lg \o <<"fallback", "reply">>,
        writers |-> Append(wr, "fallback")]

\* AfterAdvice without the try of line 94: the TypeError of line 102 reaches
\* the handler of line 113
AfterAdvice_NoInnerTry(msg, resp, lg, wr, ai_response) ==
    LET resp1 == [resp EXCEPT !.text = ai_response]
        wr1 == Append(wr, "generator")
    IN IF Len(resp1.amounts) > 0
       THEN IF ai_response.t /= "str"
            THEN [pc |-> "done", response |-> resp1,
                  reply |-> ErrorReply("TypeError"), log |-> lg, writers |-> wr1]
            ELSE LET resp2 == [resp1 EXCEPT !.text =
                                  PyStr(ai_response.v \o AmountSummary(resp1.amounts))]
                 IN [pc |-> "done", response |-> resp2, reply |-> OkReply(resp2),
                     log |-> lg \o <<"summary", "reply">>, writers |-> wr1]
       ELSE [pc |-> "done", response |-> resp1, reply |-> OkReply(resp1),
             log |-> Append(lg, "reply"), writers |-> wr1]

\* AfterAdvice with neither the try of line 94 nor that of line 61: the
\* TypeError of line 102 ends the handler and no reply is returned
AfterAdvice_Uncaught(msg, resp, lg, wr, ai_response) ==
    LET resp1 == [resp EXCEPT !.text = ai_response]
        wr1 == Append(wr, "generator")
    IN IF Len(resp1.amounts) > 0
       THEN IF ai_response.t /= "str"
            THEN [pc |-> "aborted", response |-> resp1, reply |-> NoReply,
                  log |-> lg, writers |-> wr1]
            ELSE LET resp2 == [resp1 EXCEPT !.text =
                                  PyStr(ai_response.v \o AmountSummary(resp1.amounts))]
                 IN [pc |-> "done", response |-> resp2, reply |-> OkReply(resp2),
                     log |-> lg \o <<"summary", "reply">>, writers |-> wr1]
       ELSE [pc |-> "done", response |-> resp1, reply |-> OkReply(resp1),
             log |-> Append(lg, "reply"), writers |-> wr1]

\* lines 95-111, from the return of get_financial_advice on
AfterAdvice(msg, resp, lg, wr, ai_response) ==
    LET resp1 == [resp EXCEPT !.text = ai_response]
        wr1 == Append(wr, "generator")
    IN IF Len(resp1.amounts) > 0
       THEN IF ai_response.t /= "str"
            THEN \* None += str raises TypeError, caught at line 104
                 UseFallback(msg, resp1, lg, wr1)
            ELSE LET resp2 == [resp1 EXCEPT !.text =
                                  PyStr(ai_response.v \o AmountSummary(resp1.amounts))]
                 IN [pc |-> "done", response |-> resp2, reply |-> OkReply(resp2),
                     log |-> lg \o <<"summary", "reply">>, writers |-> wr1]
       ELSE [pc |-> "done", response |-> resp1, reply |-> OkReply(resp1),
             log |-> Append(lg, "reply"), writers |-> wr1]

\* AdviceSection without the else of line 107: with no OpenAI key the text
\* stays as initialised
AdviceSection_NoElse(msg, resp, lg, wr) ==
    IF openai_ready
    THEN [pc |-> "advice_call", response |-> resp, reply |-> NoReply,
          log |-> Append(lg, "advice"), writers |-> wr]
    ELSE [pc |-> "done", response |-> resp, reply |-> OkReply(resp),
          log |-> Append(lg, "reply"), writers |-> wr]

\* lines 92-109, up to the call of get_financial_advice
AdviceSection(msg, resp, lg, wr) ==
    IF openai_ready
    THEN [pc |-> "advice_call", response |-> resp, reply |-> NoReply,
          log |-> Append(lg, "advice"), writers |-> wr]
    ELSE UseFallback(msg, resp, lg, wr)

\* lines 86-90, from the return of analyze_sentiment on
AfterSentiment(resp, sentiment_result) ==
    [resp EXCEPT !.sentiment = sentiment_result.sentiment]

\* lines 83-86, up to the call of analyze_sentiment
SentimentSection(msg, resp, lg, wr) ==
    IF google_ready
    THEN [pc |-> "sentiment_call", response |-> resp, reply |-> NoReply,
          log |-> Append(lg, "sentiment"), writers |-> wr]
    ELSE AdviceSection(msg, resp, lg, wr)

\* lines 78-81
ExtractSection(msg) ==
    IF finance_utils
    THEN [response |-> [text |-> PyStr(<<>>), amounts |-> extract_amounts(msg),
                        sentiment |-> "neutral"],
          log |-> <<"extract">>]
    ELSE [response |-> [text |-> PyStr(<<>>), amounts |-> <<>>,
                        sentiment |-> "neutral"],
          log |-> <<>>]

\* Continue with the response dict kept at module level: one dict for all
\* requests
Continue_Shared(r, k) ==
    \E st \in {k} :
        /\ pc' = [pc EXCEPT ![r] = st.pc]
        /\ response' = [q \in Requests |-> st.response]
        /\ reply' = [reply EXCEPT ![r] = st.reply]
        /\ log' = [log EXCEPT ![r] = st.log]
        /\ writers' = [writers EXCEPT ![r] = st.writers]

\* the handler leaves request r in state k
Continue(r, k) ==
    \E st \in {k} :
        /\ pc' = [pc EXCEPT ![r] = st.pc]
        /\ response' = [response EXCEPT ![r] = st.response]
        /\ reply' = [reply EXCEPT ![r] = st.reply]
        /\ log' = [log EXCEPT ![r] = st.log]
        /\ writers' = [writers EXCEPT ![r] = st.writers]

\* the handler returns rep without having built a response
Return(r, rep) ==
    /\ pc' = [pc EXCEPT ![r] = "done"]
    /\ reply' = [reply EXCEPT ![r] = rep]
    /\ UNCHANGED <<response, log, writers>>

\* Receive without the test of lines 65-66: an empty message goes on
Receive_NoCheck(r, body) ==
    /\ pc[r] = "idle"
    /\ received' = [received EXCEPT ![r] = body]
    /\ IF body.json /= "dict"
       THEN /\ Return(r, ErrorReply("AttributeError"))
            /\ UNCHANGED message
       ELSE LET raw == IF body.message.t = "missing" THEN PyStr(<<>>)
                       ELSE body.message
            IN IF raw.t /= "str"
               THEN /\ Return(r, ErrorReply("AttributeError"))
                    /\ UNCHANGED message
               ELSE LET msg == Strip(raw.v)
                        e == ExtractSection(msg)
                    IN /\ message' = [message EXCEPT ![r] = msg]
                       /\ Continue(r, SentimentSection(msg, e.response, e.log, <<>>))
    /\ UNCHANGED <<config, sentimentOutcome, adviceOutcome, call, frontVars>>

\* chat, lines 61-86: a POST /chat arrives with the given body
Receive(r, body) ==
    /\ pc[r] = "idle"
    /\ received' = [received EXCEPT ![r] = body]
    /\ IF body.json /= "dict"
       THEN \* data is None: data.get raises AttributeError
            /\ Return(r, ErrorReply("AttributeError"))
            /\ UNCHANGED message
       ELSE LET raw == IF body.message.t = "missing" THEN PyStr(<<>>)
                       ELSE body.message
            IN IF raw.t /= "str"
               THEN \* None has no strip
                    /\ Return(r, ErrorReply("AttributeError"))
                    /\ UNCHANGED message
               ELSE IF Len(Strip(raw.v)) = 0
               THEN /\ Return(r, RejectReply)
                    /\ message' = [message EXCEPT ![r] = Strip(raw.v)]
               ELSE LET msg == Strip(raw.v)
                        e == ExtractSection(msg)
                    IN /\ message' = [message EXCEPT ![r] = msg]
                       /\ Continue(r, SentimentSection(msg, e.response, e.log, <<>>))
    /\ UNCHANGED <<config, sentimentOutcome, adviceOutcome, call, frontVars>>

\* SentimentReturn that calls analyze_sentiment again when it reports an error
SentimentReturn_Retry(r, outcome) ==
    /\ pc[r] = "sentiment_call"
    /\ "google" \notin unresponsive
    /\ sentimentOutcome' = [sentimentOutcome EXCEPT ![r] = outcome]
    /\ IF outcome.kind = "raise"
       THEN Continue(r, [pc |-> "sentiment_call", response |-> response[r],
                         reply |-> NoReply, log |-> Append(log[r], "sentiment"),
                         writers |-> writers[r]])
       ELSE Continue(r, AdviceSection(message[r],
                     AfterSentiment(response[r], analyze_sentiment(client, outcome)),
                     log[r], writers[r]))
    /\ UNCHANGED <<config, message, adviceOutcome, received, call, frontVars>>

\* chat, lines 86-109: analyze_sentiment returns
SentimentReturn(r, outcome) ==
    /\ pc[r] = "sentiment_call"
    /\ "google" \notin unresponsive
    /\ sentimentOutcome' = [sentimentOutcome EXCEPT ![r] = outcome]
    /\ Continue(r, AdviceSection(message[r],
                     AfterSentiment(response[r], analyze_sentiment(client, outcome)),
                     log[r], writers[r]))
    /\ UNCHANGED <<config, message, adviceOutcome, received, call, frontVars>>

\* chat, lines 95-111: get_financial_advice returns
AdviceReturn(r, outcome) ==
    /\ pc[r] = "advice_call"
    /\ "openai" \notin unresponsive
    /\ adviceOutcome' = [adviceOutcome EXCEPT ![r] = outcome]
    /\ Continue(r, AfterAdvice(message[r], response[r], log[r], writers[r],
                     get_financial_advice(api_key, outcome)))
    /\ UNCHANGED <<config, message, sentimentOutcome, received, call, frontVars>>

Next ==
    \E r \in Requests :
        \/ \E body \in Bodies : Receive(r, body)
        \/ \E outcome \in SentimentOutcomes : SentimentReturn(r, outcome)
        \/ \E outcome \in AdviceOutcomes : AdviceReturn(r, outcome)

Spec == Init /\ [][Next]_vars

\* every step of a handler is taken once it can be: the server runs each
\* request's thread, and a service that answers does so eventually
Step(r) ==
    \/ \E outcome \in SentimentOutcomes : SentimentReturn(r, outcome)
    \/ \E outcome \in AdviceOutcomes : AdviceReturn(r, outcome)

FairSpec == Spec /\ \A r \in Requests : WF_vars(Step(r))


(******************* direct calls of the utilities *************************)
\* the text of test_app.py line 15
TestText ==
    <<73, 32, 119, 97, 110, 116, 32, 116, 111, 32, 105, 110, 118, 101, 115, 116, 32,
      36, 53, 48, 48, 48, 32, 105, 110, 32, 115, 116, 111, 99, 107, 115, 32, 97,
      110, 100, 32, 115, 97, 118, 101, 32, 36, 50, 44, 53, 48, 48, 32, 102, 111,
      114, 32, 114, 101, 116, 105, 114, 101, 109, 101, 110, 116>>

\* the characters the amount pattern tells apart
AmountChars == {36, 49, 1635, 44, 46, 45}

\* the texts given to extract_amounts: every text of amount characters up
\* to the bound, and some longer ones
AmountTexts ==
    UNION { [1..n -> AmountChars] : n \in 0..MaxTextLen }
        \cup { TestText,
               <<36, 49, 44, 50, 51, 52, 46, 53, 54>>,
               <<57, 48, 32, 36, 55, 46, 48, 53, 32, 57, 48>>,
               <<45, 52, 46, 53, 48>>,
               <<49, 44, 50, 51, 52, 53>>,
               <<51, 46, 49, 52, 49, 53>> }

\* the program starts and no chat request is made; a run of UtilSpec is one
\* direct call of one utility function
UtilInit ==
    /\ FrontInit
    /\ BACKEND_AVAILABLE = TRUE
    /\ api_key = FALSE
    /\ client = FALSE
    /\ unresponsive = {}
    /\ pc = [r \in Requests |-> "idle"]
    /\ message = [r \in Requests |-> <<>>]
    /\ response = [r \in Requests |-> NoResponse]
    /\ reply = [r \in Requests |-> NoReply]
    /\ log = [r \in Requests |-> <<>>]
    /\ writers = [r \in Requests |-> <<>>]
    /\ sentimentOutcome = [r \in Requests |-> NoOutcome]
    /\ adviceOutcome = [r \in Requests |-> NoOutcome]
    /\ received = [r \in Requests |-> NoBody]
    /\ call = NoCall

\* utils.extract_amounts(text) is called
CallExtractAmounts ==
    /\ call = NoCall
    /\ \E text \in AmountTexts :
          call' = [fn |-> "extract_amounts", arg |-> text,
                   result |-> extract_amounts(text)]
    /\ UNCHANGED <<chatVars, frontVars>>

\* the arguments given to the calculators
SamplePrincipals == {RInt(-1000), RInt(0), Rat(1, 8), RInt(10), RInt(1000)}
SampleRates == {RInt(0), Rat(1, 10)}
SampleYears == {-1, 0, 1, 2}
SampleFrequencies == {-1, 0, 1, 2}
SampleLoans == {RInt(0), Rat(819, 40), Rat(4095, 8), RInt(1000)}
SampleAnnualRates == {RInt(0), RInt(12)}
SampleLoanYears == {-1, 0, 1}

\* utils.calculate_compound_interest(principal, rate, time, frequency) is called
CallCompoundInterest ==
    /\ call = NoCall
    /\ \E p \in SamplePrincipals, rt \in SampleRates,
          t \in SampleYears, f \in SampleFrequencies :
          \E err \in CompoundErrors(p, rt, t, f) :
             call' = [fn |-> "calculate_compound_interest",
                      arg |-> [principal |-> p, rate |-> rt, time |-> t,
                               compound_frequency |-> f],
                      result |-> calculate_compound_interest(p, rt, t, f, err)]
    /\ UNCHANGED <<chatVars, frontVars>>

\* FinanceUtils.calculate_monthly_payment(loan_amount, annual_rate, years) is
\* called
CallMonthlyPayment ==
    /\ call = NoCall
    /\ \E l \in SampleLoans, rt \in SampleAnnualRates, y \in SampleLoanYears :
          \E err \in PaymentErrors(l, rt, y) :
             call' = [fn |-> "calculate_monthly_payment",
                      arg |-> [loan_amount |-> l, annual_rate |-> rt, years |-> y],
                      result |-> calculate_monthly_payment(l, rt, y, err)]
    /\ UNCHANGED <<chatVars, frontVars>>

\* the text of test_app.py line 27
TestExpense ==
    <<76, 117, 110, 99, 104, 32, 97, 116, 32, 114, 101, 115, 116, 97, 117, 114, 97, 110, 116, 32,
      100, 111, 119, 110, 116, 111, 119, 110>>

\* words joined into the texts given to categorize_expense: keywords of each
\* category in either case, a word that holds a keyword inside, fillers
ExpenseWords ==
    { <<76, 117, 110, 99, 104>>,
      <<103, 97, 115>>,
      <<71, 65, 77, 69>>,
      <<65, 109, 97, 122, 111, 110>>,
      <<119, 97, 116, 101, 114>>,
      <<68, 111, 99, 116, 111, 114>>,
      <<115, 99, 97, 114, 102>>,
      <<116, 97, 120, 304>>,
      <<120>>,
      <<32>> }

\* the concatenations of at most n words of the set
RECURSIVE TextsOf(_, _)
TextsOf(words, n) ==
    IF n = 0 THEN {<<>>}
    ELSE LET shorter == TextsOf(words, n - 1)
         IN shorter \cup {t \o w : t \in shorter, w \in words}

ExpenseTexts == TextsOf(ExpenseWords, MaxWords) \cup {TestExpense}

\* utils.categorize_expense(text) is called
CallCategorizeExpense ==
    /\ call = NoCall
    /\ \E text \in ExpenseTexts :
          call' = [fn |-> "categorize_expense", arg |-> text,
                   result |-> categorize_expense(text)]
    /\ UNCHANGED <<chatVars, frontVars>>

\* words joined into the messages given to generate_fallback_response: each
\* keyword in some case, one inside a longer word, and words with none
FallbackWords ==
    { <<73, 110, 118, 101, 115, 116, 109, 101, 110, 116>>,
      <<66, 85, 68, 71, 69, 84>>,
      <<108, 111, 97, 110>>,
      <<83, 97, 118, 101, 100>>,
      <<100, 101, 98, 116>>,
      <<82, 101, 116, 105, 114, 101, 109, 101, 110, 116>>,
      <<72, 105>>,
      <<84, 97, 120>>,
      <<32>> }

FallbackTexts == TextsOf(FallbackWords, MaxWords)

\* generate_fallback_response(message) is called
CallFallback ==
    /\ call = NoCall
    /\ \E text \in FallbackTexts :
          call' = [fn |-> "generate_fallback_response", arg |-> text,
                   result |-> generate_fallback_response(text)]
    /\ UNCHANGED <<chatVars, frontVars>>

\* every score of the service's range [-1, 1], in hundredths
AllScores == -100..100

\* handler.analyze_sentiment(text) is called on a handler with or without a
\* client; the service reports a score or raises
CallAnalyzeSentiment ==
    /\ call = NoCall
    /\ \E hasClient \in BOOLEAN,
          outcome \in { [kind |-> "score", score |-> sc] : sc \in AllScores }
                          \cup { [kind |-> "raise", score |-> 0] } :
          call' = [fn |-> "analyze_sentiment",
                   arg |-> [client |-> hasClient, outcome |-> outcome],
                   result |-> analyze_sentiment(hasClient, outcome)]
    /\ UNCHANGED <<chatVars, frontVars>>

\* words joined into the texts given to validate_financial_input: amounts,
\* percentages, dates, and the characters that make or break a match
ValidateWords ==
    { <<36, 49>>,
      <<50, 1632>>,
      <<53, 37>>,
      <<50, 46, 53, 37>>,
      <<49, 47, 50, 47, 50, 52>>,
      <<49, 50, 45, 51, 49, 45, 50, 48, 50, 52>>,
      <<233>>,
      <<95>>,
      <<32>>,
      <<37>>,
      <<46>>,
      <<47>> }

ValidateTexts == TextsOf(ValidateWords, MaxWords)

\* utils.validate_financial_input(text) is called
CallValidate ==
    /\ call = NoCall
    /\ \E text \in ValidateTexts :
          call' = [fn |-> "validate_financial_input", arg |-> text,
                   result |-> validate_financial_input(text)]
    /\ UNCHANGED <<chatVars, frontVars>>

\* amounts given to format_currency, in cents: every amount below 11.00, the
\* amounts around 1,000.00 and 1,000,000.00 where a comma appears, the
\* amount of test_app.py line 22 and two long ones
CurrencyAmounts ==
    (0..1099) \cup (99900..100100) \cup (99999900..100000100)
        \cup {123456, 123456789, 1000000000}

\* utils.format_currency(amount) is called
CallFormatCurrency ==
    /\ call = NoCall
    /\ \E amount \in CurrencyAmounts :
          call' = [fn |-> "format_currency", arg |-> amount,
                   result |-> format_currency(amount)]
    /\ UNCHANGED <<chatVars, frontVars>>

UtilNext ==
    \/ CallFormatCurrency
    \/ CallValidate
    \/ CallAnalyzeSentiment
    \/ CallFallback
    \/ CallCategorizeExpense
    \/ CallExtractAmounts
    \/ CallCompoundInterest
    \/ CallMonthlyPayment

UtilSpec == UtilInit /\ [][UtilNext]_vars

(******************* frontend/kivy_mobile_app.py ***************************)
\* what the text input holds when send_message runs: a typed text, or the
\* text ChatScreen.quick_action has put there for the first button
KivyInputs ==
    {<<>>, <<32, 160>>, <<160, 98, 32>>, clean_action(KivyQuickActions[1])}

\* ChatScreen.add_message: the bubble is added below the others
add_message(layout, bubble) == Append(layout, bubble)

\* ChatScreen.replace_last_message: children[0], the bubble added last, is
\* removed, then the message is added
replace_last_message(layout, bubble) ==
    add_message(IF Len(layout) > 0
                THEN SubSeq(layout, 1, Len(layout) - 1)
                ELSE layout,
                bubble)

\* ChatScreen.send_message with text in the input: the user's message and
\* the typing indicator are added and the background thread is started
kivy_send_message(text) ==
    LET user_message == Strip(text)
        k == kivy_sent + 1
    IN IF Len(user_message) = 0
       THEN UNCHANGED kivyVars
       ELSE /\ chat_layout' =
                 add_message(
                     add_message(chat_layout, Bubble("You", user_message, k)),
                     Bubble("Assistant", KivyTypingText, k))
            /\ kivy_threads' = kivy_threads \cup {[of |-> k, message |-> user_message]}
            /\ kivy_sent' = k
            /\ UNCHANGED kivy_clock

\* send is pressed, the text is validated or a quick action button is pressed
KivySend ==
    /\ kivy_sent < MaxSent
    /\ \E text \in KivyInputs : kivy_send_message(text)
    /\ UNCHANGED <<chatVars, call, tkVars, fastVars>>

\* ChatScreen.get_response_async of a send ends: it schedules the callback
\* that delivers the response
KivyThreadEnd ==
    /\ \E t \in kivy_threads :
          /\ kivy_threads' = kivy_threads \ {t}
          /\ kivy_clock' =
                Append(kivy_clock,
                       Bubble("Assistant", kivy_get_demo_response(t.message), t.of))
    /\ UNCHANGED <<chat_layout, kivy_sent, chatVars, call, tkVars, fastVars>>

\* the Clock runs the next scheduled callback
KivyClockTick ==
    /\ Len(kivy_clock) > 0
    /\ chat_layout' = replace_last_message(chat_layout, Head(kivy_clock))
    /\ kivy_clock' = Tail(kivy_clock)
    /\ UNCHANGED <<kivy_threads, kivy_sent, chatVars, call, tkVars, fastVars>>

KivyNext ==
    \/ KivySend
    \/ KivyThreadEnd
    \/ KivyClockTick

KivySpec == UtilInit /\ [][KivyNext]_vars

(********************** frontend/tkinter_app.py ****************************)
\* what the message entry holds when send_message runs: a typed text, or the
\* text ModernChatGUI.quick_action has put there for the first button
TkInputs ==
    {<<>>, <<32, 160>>, <<160, 98, 32>>, clean_action(TkQuickActions[1])}

\* an entry of the response queue: (type, data); of is the send it answers
Entry(type, data, k) == [type |-> type, data |-> data, of |-> k]

\* chat_display.delete('end-3l', 'end-1l'): the two lines before the last,
\* empty line of the text are removed
TkDelete(display) ==
    SubSeq(display, 1, IF Len(display) >= 2 THEN Len(display) - 2 ELSE 0)

\* what check_response_queue does with one entry: for a response and for an
\* error two lines are deleted and a message is added, for any other entry
\* the chat is left alone
TkShow(display, entry) ==
    IF entry.type = "response"
    THEN tk_add_message(TkDelete(display), "Assistant", entry.data, entry.of)
    ELSE IF entry.type = "error"
    THEN tk_add_message(TkDelete(display), "Assistant",
                        TkErrorPrefix \o entry.data \o TkErrorSuffix, entry.of)
    ELSE display

\* the loop of check_response_queue: every entry on the queue is taken off
\* and shown, oldest first
RECURSIVE Drain(_, _)
Drain(queue, display) ==
    IF Len(queue) = 0 THEN display
    ELSE Drain(Tail(queue), TkShow(display, Head(queue)))

\* ModernChatGUI.send_message with text in the entry: the user's message and
\* the typing indicator are shown and the background thread is started
tk_send_message(text) ==
    LET user_message == Strip(text)
        k == tk_sent + 1
    IN IF Len(user_message) = 0
       THEN UNCHANGED tkVars
       ELSE /\ chat_display' =
                 tk_add_message(
                     tk_add_message(chat_display, "You", user_message, k),
                     "Assistant", TkTypingText, k)
            /\ tk_threads' = tk_threads \cup {[of |-> k, message |-> user_message]}
            /\ tk_sent' = k
            /\ UNCHANGED <<response_queue, tk_armed, tk_put, tk_displayed>>

\* send is pressed, or the return key, or a quick action button
TkSend ==
    /\ tk_sent < MaxSent
    /\ \E text \in TkInputs : tk_send_message(text)
    /\ UNCHANGED <<chatVars, call, kivyVars, fastVars>>

\* get_response of a send ends: it puts the response on the queue
TkThreadEnd ==
    /\ \E t \in tk_threads :
          LET entry == Entry("response", tk_get_demo_response(t.message), t.of)
          IN /\ tk_threads' = tk_threads \ {t}
             /\ response_queue' = Append(response_queue, entry)
             /\ tk_put' = Append(tk_put, entry)
    /\ UNCHANGED <<chat_display, tk_armed, tk_sent, tk_displayed>>
    /\ UNCHANGED <<chatVars, call, kivyVars, fastVars>>

\* check_response_queue that does not schedule its next run
TkPoll_OneShot ==
    /\ tk_armed
    /\ chat_display' = Drain(response_queue, chat_display)
    /\ tk_displayed' = tk_displayed \o response_queue
    /\ response_queue' = <<>>
    /\ tk_armed' = FALSE
    /\ UNCHANGED <<tk_threads, tk_sent, tk_put>>
    /\ UNCHANGED <<chatVars, call, kivyVars, fastVars>>

\* ModernChatGUI.check_response_queue runs: it empties the queue and
\* schedules its next run
TkPoll ==
    /\ tk_armed
    /\ chat_display' = Drain(response_queue, chat_display)
    /\ tk_displayed' = tk_displayed \o response_queue
    /\ response_queue' = <<>>
    /\ tk_armed' = TRUE
    /\ UNCHANGED <<tk_threads, tk_sent, tk_put>>
    /\ UNCHANGED <<chatVars, call, kivyVars, fastVars>>

TkNext ==
    \/ TkSend
    \/ TkThreadEnd
    \/ TkPoll

TkSpec == UtilInit /\ [][TkNext]_vars

\* a background thread ends, and Tk runs a scheduled callback
TkFairSpec == TkSpec /\ WF_vars(TkThreadEnd) /\ WF_vars(TkPoll)

(********************* frontend/fastapi_frontend.py ************************)
\* the message field of a posted form
FastMessages ==
    {<<97>>, <<32, 98, 32>>, <<83, 97, 118, 101>>}

\* ChatMessage(sender, message).to_dict(), the timestamp left out
ChatMessage(sender, msg) ==
    [sender |-> sender, message |-> msg]

\* the posts answered in the conversation
Posts(entries) == Len(SelectSeq(entries, LAMBDA e : e.sender = "You"))

\* home that adds the welcome message on every request
FastHome_Always ==
    /\ conversations' =
          [exists |-> TRUE,
           entries |-> Append(conversations.entries,
                              ChatMessage("Assistant", FastWelcomeText))]
    /\ Len(conversations.entries) <= 2 * MaxSent
    /\ fast_last' = [op |-> "home"]
    /\ UNCHANGED <<chatVars, call, kivyVars, tkVars>>

\* GET /: a conversation is created, with the welcome message, when there
\* is none
FastHome ==
    /\ conversations' =
          IF ~conversations.exists
          THEN [exists |-> TRUE,
                entries |-> <<ChatMessage("Assistant", FastWelcomeText)>>]
          ELSE conversations
    /\ fast_last' = [op |-> "home"]
    /\ UNCHANGED <<chatVars, call, kivyVars, tkVars>>

\* POST /chat: the user's message is appended, then the response
FastChat ==
    /\ Posts(conversations.entries) < MaxSent
    /\ \E msg \in FastMessages :
          /\ conversations' =
                [exists |-> TRUE,
                 entries |->
                     conversations.entries
                         \o <<ChatMessage("You", msg),
                               ChatMessage("Assistant", get_demo_response(msg))>>]
          /\ fast_last' = [op |-> "chat", message |-> msg]
    /\ UNCHANGED <<chatVars, call, kivyVars, tkVars>>

\* GET /clear: a stored conversation becomes empty
FastClear ==
    /\ conversations' =
          IF conversations.exists
          THEN [exists |-> TRUE, entries |-> <<>>]
          ELSE conversations
    /\ fast_last' = [op |-> "clear"]
    /\ UNCHANGED <<chatVars, call, kivyVars, tkVars>>

FastNext ==
    \/ FastHome
    \/ FastChat
    \/ FastClear

FastSpec == UtilInit /\ [][FastNext]_vars

(***************************** properties **********************************)
Done(r) == pc[r] = "done"
Normal(r) == Done(r) /\ reply[r].status = 200
NonEmptyText(x) == x.t = "str" /\ Len(x.v) > 0
Last(s) == s[Len(s)]

\* the advice call of request r failed or produced nothing usable
AdviceFailed(r) ==
    \/ adviceOutcome[r].kind = "raise"
    \/ adviceOutcome[r].kind = "content" /\ ~Truthy(adviceOutcome[r].value)

\* what get_financial_advice returned to request r
AdviceText(r) == get_financial_advice(api_key, adviceOutcome[r])

\* request r waits for a service that never answers
Blocked(r) ==
    \/ pc[r] = "sentiment_call" /\ "google" \in unresponsive
    \/ pc[r] = "advice_call" /\ "openai" \in unresponsive

\* C1: with no Google client and no OpenAI key, a request with a non-empty
\* message ends, without raising, in a normal reply with non-empty text.
TotalFallback ==
    \A r \in Requests :
        (pc[r] /= "idle" /\ Len(message[r]) > 0 /\ ~google_ready /\ ~openai_ready)
            => /\ Normal(r)
               /\ NonEmptyText(reply[r].text)

TotalFallbackWitness ==
    \E r \in Requests :
        /\ ~google_ready /\ ~openai_ready
        /\ Normal(r)
        /\ message[r] = Msg_hi
        /\ reply[r].text = PyStr(DefaultPrefix \o Msg_hi \o DefaultSuffix)

\* C2: when the advice generator raises, is unconfigured or returns an empty
\* result, the reply text is the FallbackAdvisor's text.
FallbackOnAdviceFailure ==
    \A r \in Requests :
        (Normal(r) /\ (~openai_ready \/ AdviceFailed(r)))
            => /\ Last(writers[r]) = "fallback"
               /\ reply[r].text = PyStr(generate_fallback_response(message[r]))

\* C3: every reply of the chat operation has non-empty response text.
ResponseTextNonEmpty ==
    \A r \in Requests :
        (Done(r) /\ reply[r].status \in {200, 500}) => NonEmptyText(reply[r].text)

\* C4: when there is no sentiment client or the sentiment call fails, the
\* label of the reply is unknown or error.
SentimentUnavailableLabel ==
    \A r \in Requests :
        (Normal(r) /\ (~google_ready \/ sentimentOutcome[r].kind = "raise"))
            => reply[r].sentiment \in {"unknown", "error"}

\* C5: a request whose sentiment call or advice call failed, in whatever
\* way, ends with a normal reply and not with the 500 reply.
NoServiceFailurePropagates ==
    \A r \in Requests :
        (Done(r) /\ (sentimentOutcome[r].kind = "raise" \/ AdviceFailed(r)))
            => reply[r].status = 200

NoServiceFailurePropagatesWitness ==
    \E r \in Requests :
        /\ Normal(r)
        /\ sentimentOutcome[r].kind = "raise"
        /\ adviceOutcome[r] = [kind |-> "content", value |-> PyNone]
        /\ Len(reply[r].amounts) > 0

\* C6: the base text of a normal reply was supplied by exactly one of the
\* advice generator and the FallbackAdvisor: the last one to assign the text,
\* whose output the reply text is (with the amount summary after it, if any).
ExactlyOneSource ==
    \A r \in Requests :
        Normal(r) =>
            /\ Len(writers[r]) >= 1
            /\ Last(writers[r]) = "fallback"
                   => /\ reply[r].text = PyStr(generate_fallback_response(message[r]))
                      /\ reply[r].text /= AdviceText(r)
            /\ Last(writers[r]) = "generator"
                   => /\ "fallback" \notin {log[r][i] : i \in 1..Len(log[r])}
                      /\ \/ reply[r].text = AdviceText(r)
                         \/ /\ AdviceText(r).t = "str"
                            /\ reply[r].text =
                                 PyStr(AdviceText(r).v \o AmountSummary(reply[r].amounts))

ExactlyOneSourceWitness ==
    \E r \in Requests :
        /\ Normal(r)
        /\ writers[r] = <<"generator", "fallback">>
        /\ reply[r].text = PyStr(Response_loan)

\* C7: the amount summary is appended exactly when the amount list is
\* non-empty and the base text came from the advice generator; a fallback
\* text is returned as it is.
SummaryIffGeneratorAndAmounts ==
    \A r \in Requests :
        Normal(r) =>
            IF Len(reply[r].amounts) > 0 /\ Last(writers[r]) = "generator"
            THEN reply[r].text =
                     PyStr(AdviceText(r).v \o AmountSummary(extract_amounts(message[r])))
            ELSE reply[r].text =
                     IF Last(writers[r]) = "generator" THEN AdviceText(r)
                     ELSE PyStr(generate_fallback_response(message[r]))

SummaryWitness ==
    \E r \in Requests :
        /\ Normal(r)
        /\ message[r] = Msg_paid
        /\ Last(writers[r]) = "generator"
        /\ reply[r].amounts = <<2000, 700>>
        /\ reply[r].text = PyStr(AdviceSample \o AmountSummary(<<2000, 700>>))

\* the place of a step in the order of the request
Rank(step) ==
    CASE step = "extract" -> 1
      [] step = "sentiment" -> 2
      [] step = "advice" -> 3
      [] step = "fallback" -> 4
      [] step = "summary" -> 5
      [] step = "reply" -> 6

Count(s, x) == Cardinality({i \in 1..Len(s) : s[i] = x})

\* C8: the steps of a request happen in the order amount extraction,
\* sentiment call, advice call or fallback, amount summary, reply; each
\* service is called at most once, and a normal reply ends the steps.
FixedStepOrder ==
    \A r \in Requests :
        /\ \A i, j \in 1..Len(log[r]) : i < j => Rank(log[r][i]) < Rank(log[r][j])
        /\ Count(log[r], "sentiment") <= 1
        /\ Count(log[r], "advice") <= 1
        /\ Normal(r) => /\ Last(log[r]) = "reply"
                        /\ BACKEND_AVAILABLE => log[r][1] = "extract"

FixedStepOrderWitness ==
    \E r \in Requests :
        log[r] = <<"extract", "sentiment", "advice", "summary", "reply">>

\* the place of a handler position in START -> ... -> DONE
PcRank(p) ==
    CASE p = "idle" -> 0
      [] p = "sentiment_call" -> 1
      [] p = "advice_call" -> 2
      [] p = "done" -> 3
      [] OTHER -> 0

\* a started request is done with a reply returned, or its next step can be
\* taken, or it waits for a service that never answers
NotStuck ==
    \A r \in Requests :
        pc[r] /= "idle" =>
            \/ Done(r) /\ reply[r].status \in {200, 400, 500}
            \/ ~Done(r) /\ ENABLED Step(r)
            \/ Blocked(r)

\* a step moves one request strictly forward and leaves the others in place
Advances ==
    \E r \in Requests :
        /\ PcRank(pc'[r]) > PcRank(pc[r])
        /\ \A q \in Requests \ {r} : pc'[q] = pc[q]

\* C9: a started request whose external calls return or raise reaches done
\* and has returned a reply: it is never stuck before done, and every step
\* moves it strictly forward through the finitely many positions, so no
\* request takes more than three steps.
EveryRequestCompletes == []NotStuck /\ [][Advances]_vars

EveryRequestCompletesWitness ==
    \E r \in Requests :
        /\ unresponsive = {}
        /\ Done(r)
        /\ sentimentOutcome[r].kind = "raise"
        /\ adviceOutcome[r].kind = "raise"
        /\ reply[r].status = 200

\* C10: a request whose external service never answers still completes with
\* a reply.
StalledCallDoesNotBlock ==
    \A r \in Requests : [](pc[r] /= "idle" => <>Done(r))

\* the body carries an empty or whitespace-only message (or none at all,
\* which line 63 reads as '')
BlankBody(b) ==
    /\ b.json = "dict"
    /\ \/ b.message.t = "missing"
       \/ /\ b.message.t = "str"
          /\ \A i \in 1..Len(b.message.v) : IsSpace(b.message.v[i])

\* C11: a request with an empty or whitespace-only message is rejected with
\* the 400 reply, and neither amount extraction nor the sentiment call nor
\* the advice call (nor the fallback) has been made for it.
EmptyMessageRejected ==
    \A r \in Requests :
        (pc[r] /= "idle" /\ BlankBody(received[r]))
            => /\ Done(r)
               /\ reply[r] = RejectReply
               /\ log[r] = <<>>
               /\ writers[r] = <<>>
               /\ response[r] = NoResponse
               /\ sentimentOutcome[r] = NoOutcome
               /\ adviceOutcome[r] = NoOutcome

EmptyMessageRejectedWitness ==
    \E r \in Requests :
        /\ received[r] = [json |-> "dict", message |-> PyStr(Msg_blank)]
        /\ BACKEND_AVAILABLE /\ api_key /\ client
        /\ reply[r].status = 400

\* the reply text of request r was assigned by the fallback branch (line 106
\* or line 109)
FallbackSupplied(r) ==
    /\ Normal(r)
    /\ writers[r] /= <<>>
    /\ Last(writers[r]) = "fallback"

RequestState(q) ==
    <<pc[q], message[q], response[q], reply[q], log[q], writers[q],
      sentimentOutcome[q], adviceOutcome[q], received[q]>>

\* two finished requests with the same body and the same outcomes of their
\* own external calls got the same reply
SameInputsSameReply ==
    \A r1, r2 \in Requests :
        (/\ Done(r1) /\ Done(r2)
         /\ received[r1] = received[r2]
         /\ sentimentOutcome[r1] = sentimentOutcome[r2]
         /\ adviceOutcome[r1] = adviceOutcome[r2])
            => reply[r1] = reply[r2]

\* a step of one request changes nothing of the other requests and nothing
\* of the module-level handlers
TouchesOnlyItself ==
    \E r \in Requests :
        /\ \A q \in Requests \ {r} : RequestState(q)' = RequestState(q)
        /\ config' = config

\* C13: requests do not affect each other: under every interleaving a step
\* of one request leaves the other requests and the shared handlers as they
\* were, and a reply depends only on the request's own body and on the
\* outcomes of its own external calls.
RequestsIndependent == []SameInputsSameReply /\ [][TouchesOnlyItself]_vars

RequestsIndependentWitness ==
    \E r1, r2 \in Requests :
        /\ r1 /= r2
        /\ pc[r1] = "advice_call"
        /\ message[r1] = Msg_hi
        /\ response[r1].amounts = <<>>
        /\ Normal(r2)
        /\ message[r2] = Msg_paid
        /\ reply[r2].amounts = <<2000, 700>>
        /\ sentimentOutcome[r1] /= sentimentOutcome[r2]

\* s is written in the amount grammar without the $: digits, then groups of
\* a comma and three digits, then possibly a point and two digits
IsAmountToken(s) ==
    \E d \in 1..Len(s) : \E g \in 0..Len(s) : \E f \in {0, 1} :
        /\ Len(s) = d + 4 * g + 3 * f
        /\ \A i \in 1..d : IsDigit(s[i])
        /\ \A k \in 0..(g - 1) :
              /\ s[d + 4 * k + 1] = 44
              /\ \A j \in 2..4 : IsDigit(s[d + 4 * k + j])
        /\ f = 1 => /\ s[Len(s) - 2] = 46
                    /\ IsDigit(s[Len(s) - 1])
                    /\ IsDigit(s[Len(s)])

\* s matches the amount grammar: an optional $ and an amount token
MatchesGrammar(s) ==
    \/ IsAmountToken(s)
    \/ Len(s) >= 2 /\ s[1] = 36 /\ IsAmountToken(Tail(s))

\* the value, in cents, of a text that matches the grammar: its digits read
\* as one number, which counts cents when the text has a fraction
ValueOf(s) ==
    LET ds == SelectSeq(s, IsDigit)
    IN IF Len(s) >= 3 /\ s[Len(s) - 2] = 46
       THEN DigitsToInt(ds)
       ELSE 100 * DigitsToInt(ds)

\* the end of the longest substring from position i that matches the
\* grammar, 0 when there is none
LongestMatchEnd(text, i) ==
    LET ends == {e \in i..Len(text) : MatchesGrammar(SubSeq(text, i, e))}
    IN IF ends = {} THEN 0
       ELSE CHOOSE e \in ends : \A e2 \in ends : e2 <= e

\* the values of the matching substrings met from left to right
RECURSIVE MatchValuesFrom(_, _)
MatchValuesFrom(text, i) ==
    IF i > Len(text) THEN <<>>
    ELSE LET e == LongestMatchEnd(text, i)
         IN IF e = 0 THEN MatchValuesFrom(text, i + 1)
            ELSE <<ValueOf(SubSeq(text, i, e))>> \o MatchValuesFrom(text, e + 1)

\* C14: extract_amounts returns the values of the substrings that match the
\* amount grammar, from left to right, duplicates kept and commas stripped.
ExtractReturnsMatches ==
    call.fn = "extract_amounts" => call.result = MatchValuesFrom(call.arg, 1)

ExtractReturnsMatchesWitness ==
    /\ call.fn = "extract_amounts"
    /\ call.arg = TestText
    /\ call.result = <<500000, 250000>>

\* s is a number with a leading minus sign
NegativeNumber(s) ==
    Len(s) >= 2 /\ s[1] = 45 /\ IsAmountToken(Tail(s))

\* s is a number with more than two fractional digits
LongFraction(s) ==
    \E p \in 2..(Len(s) - 3) :
        /\ s[p] = 46
        /\ \A i \in 1..Len(s) : i /= p => IsDigit(s[i])

\* C15: a number with a leading minus sign or with more than two fractional
\* digits yields no amount, neither as a whole nor in pieces.
OutOfGrammarYieldsNothing ==
    (call.fn = "extract_amounts" /\ (NegativeNumber(call.arg) \/ LongFraction(call.arg)))
        => call.result = <<>>

\* C16: compound_interest fails, and returns no amount, whenever the
\* principal is negative, the years are negative or the compounding
\* frequency is not positive.
CompoundInterestRejectsBadInput ==
    (/\ call.fn = "calculate_compound_interest"
     /\ \/ call.arg.principal[1] < 0
        \/ call.arg.time < 0
        \/ call.arg.compound_frequency <= 0)
        => call.result.kind /= "value"

\* C17: amortized_payment fails, and returns no payment, whenever the number
\* of payments, years * 12, is not positive.
MonthlyPaymentRejectsBadInput ==
    (/\ call.fn = "calculate_monthly_payment"
     /\ call.arg.years * 12 <= 0)
        => call.result.kind /= "value"

\* the table order the categories are tried in
CategoryOrder ==
    <<"food", "transportation", "entertainment", "shopping", "utilities",
      "healthcare">>

\* some keyword of the i-th category is contained in the lower-cased text
CategoryHit(text, i) ==
    \E k \in 1..Len(CategoryKeywords[i]) :
        Contains(CategoryKeywords[i][k], Lower(text))

\* C18: categorize returns exactly one category: the first one, in the order
\* food, transportation, entertainment, shopping, utilities, healthcare, that
\* has a keyword contained in the lower-cased text, and other when none has
\* (the empty text included).
CategorizeFirstHit ==
    call.fn = "categorize_expense" =>
        /\ CategoryNames = CategoryOrder
        /\ IF \E i \in 1..Len(CategoryOrder) : CategoryHit(call.arg, i)
           THEN \E i \in 1..Len(CategoryOrder) :
                   /\ call.result = CategoryOrder[i]
                   /\ CategoryHit(call.arg, i)
                   /\ \A j \in 1..(i - 1) : ~CategoryHit(call.arg, j)
           ELSE call.result = "other"
        /\ call.arg = <<>> => call.result = "other"

CategorizeFirstHitWitness ==
    /\ call.fn = "categorize_expense"
    /\ call.arg = <<68, 111, 99, 116, 111, 114, 71, 65, 77, 69,
                   115, 99, 97, 114, 102>>
    /\ call.result = "transportation"

\* the priority order of the fallback keywords
PriorityOrder ==
    <<<<105, 110, 118, 101, 115, 116, 109, 101, 110, 116>>,
      <<98, 117, 100, 103, 101, 116>>,
      <<108, 111, 97, 110>>,
      <<115, 97, 118, 101>>,
      <<100, 101, 98, 116>>,
      <<114, 101, 116, 105, 114, 101, 109, 101, 110, 116>>>>

\* the k-th keyword is contained in the lower-cased message
KeywordHit(text, k) == Contains(PriorityOrder[k], Lower(text))

\* C19: the fallback text is the canned response of the earliest keyword, in
\* the order investment, budget, loan, save, debt, retirement, contained in
\* the lower-cased message, also when several keywords occur.
EarliestKeywordWins ==
    call.fn = "generate_fallback_response" =>
        \A k \in 1..Len(PriorityOrder) :
            (KeywordHit(call.arg, k) /\ \A j \in 1..(k - 1) : ~KeywordHit(call.arg, j))
                => call.result = Responses[k]

EarliestKeywordWinsWitness ==
    /\ call.fn = "generate_fallback_response"
    /\ call.arg = <<100, 101, 98, 116, 108, 111, 97, 110, 83, 97, 118, 101, 100>>
    /\ call.result = Response_loan

\* C20: the fallback returns non-empty text for every message, and when no
\* keyword matches the text contains the message in its original case.
FallbackTotalAndEchoes ==
    call.fn = "generate_fallback_response" =>
        /\ Len(call.result) > 0
        /\ (\A k \in 1..Len(PriorityOrder) : ~KeywordHit(call.arg, k))
               => Contains(call.arg, call.result)

FallbackTotalAndEchoesWitness ==
    /\ call.fn = "generate_fallback_response"
    /\ call.arg = <<72, 105, 32, 84, 97, 120>>
    /\ call.result = DefaultPrefix \o <<72, 105, 32, 84, 97, 120>> \o DefaultSuffix

\* the analysis of the call succeeded: there is a client and it reported a score
AnalysisSucceeded == call.arg.client /\ call.arg.outcome.kind = "score"

\* C21: a successful analysis labels positive above 0.25, negative below
\* -0.25 and neutral otherwise, exactly 0.25 and -0.25 included; unknown is
\* the label exactly when the client is absent, error exactly when the call
\* raised.
SentimentThresholds ==
    call.fn = "analyze_sentiment" =>
        /\ AnalysisSucceeded =>
              /\ call.arg.outcome.score > 25 => call.result.sentiment = "positive"
              /\ call.arg.outcome.score < -25 => call.result.sentiment = "negative"
              /\ (call.arg.outcome.score >= -25 /\ call.arg.outcome.score <= 25)
                    => call.result.sentiment = "neutral"
        /\ call.result.sentiment = "unknown" <=> ~call.arg.client
        /\ call.result.sentiment = "error"
              <=> (call.arg.client /\ call.arg.outcome.kind = "raise")

SentimentThresholdsWitness ==
    /\ call.fn = "analyze_sentiment"
    /\ AnalysisSucceeded
    /\ call.arg.outcome.score = 25
    /\ call.result.sentiment = "neutral"

\* a combination of the three validation flags
Flags(a, p, d) == [has_amount |-> a, has_percentage |-> p, has_date |-> d]

\* the flag combinations the validator produces on the texts given to it
ProducedCombinations == {validate_financial_input(t) : t \in ValidateTexts}

\* C22 as stated: each of the eight combinations of has_amount,
\* has_percentage and has_date is produced by some input text.
AllEightCombinations ==
    call.fn = "validate_financial_input" =>
        \A a \in BOOLEAN, p \in BOOLEAN, d \in BOOLEAN :
            Flags(a, p, d) \in ProducedCombinations

\* C22, amended: a percentage or a date needs a digit and every digit is an
\* amount match, so has_percentage and has_date each imply has_amount; the
\* combinations produced are the all-false one and the four with has_amount
\* true, has_percentage and has_date being independent of each other.
FlagsImplyAmount ==
    /\ call.fn = "validate_financial_input" =>
          /\ call.result.has_percentage => call.result.has_amount
          /\ call.result.has_date => call.result.has_amount
    /\ ProducedCombinations =
          {Flags(FALSE, FALSE, FALSE)}
              \cup {Flags(TRUE, p, d) : p \in BOOLEAN, d \in BOOLEAN}

FlagsImplyAmountWitness ==
    /\ call.fn = "validate_financial_input"
    /\ call.arg = <<50, 46, 53, 37, 32, 49, 47, 50, 47, 50, 52>>
    /\ call.result = Flags(TRUE, TRUE, TRUE)

\* the text is a digit string without a leading zero, or "0"
IsNumeral(ds) ==
    /\ Len(ds) > 0
    /\ \A k \in 1..Len(ds) : ds[k] \in 48..57
    /\ Len(ds) > 1 => ds[1] /= 48

\* the text is the integer part n grouped in thousands: it has a comma
\* exactly where a positive multiple of three characters, commas not
\* counted, follows, and without its commas it is the numeral of n
IsGrouped(txt, n) ==
    /\ IsNumeral(RemoveCommas(txt))
    /\ DigitsToInt(RemoveCommas(txt)) = n
    /\ txt[1] /= 44
    /\ \A k \in 1..Len(txt) :
          (txt[k] = 44) <=> (k < Len(txt) /\ (Len(txt) - k + 1) % 4 = 0)

\* C23: format_currency renders a non-negative amount with at most two
\* decimals as "$", the integer part grouped in thousands by commas, a point
\* and exactly two decimal digits.
CurrencyFormat ==
    (call.fn = "format_currency" /\ call.arg >= 0) =>
        LET txt == call.result
            n == Len(txt)
        IN /\ n >= 5
           /\ txt[1] = 36
           /\ txt[n - 2] = 46
           /\ txt[n - 1] \in 48..57 /\ txt[n] \in 48..57
           /\ 10 * (txt[n - 1] - 48) + (txt[n] - 48) = call.arg % 100
           /\ IsGrouped(SubSeq(txt, 2, n - 3), call.arg \div 100)

CurrencyFormatWitness ==
    /\ call.fn = "format_currency"
    /\ call.arg = 123456
    /\ call.result = <<36, 49, 44, 50, 51, 52, 46, 53, 54>>

\* the rational is a whole number of cents
WholeCents(x) == (100 * x[1]) % x[2] = 0

\* C24: for every valid input, annual_rate = 0 included, the payment
\* returned is rounded to 2 decimal places: it is a whole number of cents.
PaymentRoundedToCents ==
    (/\ call.fn = "calculate_monthly_payment"
     /\ call.arg.loan_amount[1] >= 0
     /\ call.arg.annual_rate[1] >= 0
     /\ call.arg.years * 12 > 0)
        => /\ call.result.kind = "value"
           /\ WholeCents(call.result.v)

\* C25: every normal reply carries the amount list extract_amounts(message),
\* in the same order, whichever of the advice generator or the fallback
\* produced the text and whatever the sentiment outcome was.
ReplyCarriesAmounts ==
    \A r \in Requests :
        Normal(r) => reply[r].amounts = extract_amounts(message[r])

\* every reply of the Kivy chat has been delivered
KivyAllDelivered == kivy_threads = {} /\ Len(kivy_clock) = 0

\* the bubble is a typing indicator
IsTyping(bubble) ==
    bubble.sender = "Assistant" /\ bubble.message = KivyTypingText

\* C26: once all replies have been delivered, no "Typing..." indicator
\* remains in the chat and the reply to every sent message is displayed.
KivyRepliesDisplayed ==
    KivyAllDelivered =>
        /\ \A i \in 1..Len(chat_layout) : ~IsTyping(chat_layout[i])
        /\ \A k \in 1..kivy_sent :
              \E i \in 1..Len(chat_layout), j \in 1..Len(chat_layout) :
                  /\ chat_layout[j].of = k
                  /\ chat_layout[j].sender = "You"
                  /\ chat_layout[i].of = k
                  /\ chat_layout[i].sender = "Assistant"
                  /\ chat_layout[i].message = kivy_get_demo_response(chat_layout[j].message)

\* how many entries of the sequence belong to send k
RECURSIVE CountOf(_, _)
CountOf(entries, k) ==
    IF Len(entries) = 0 THEN 0
    ELSE (IF Head(entries).of = k THEN 1 ELSE 0) + CountOf(Tail(entries), k)

\* each send has put one entry on the queue once its thread has ended and
\* none before; the entries displayed, followed by those still on the queue,
\* are the entries put, in the order they were put; the poll is scheduled
TkQueueInOrder ==
    /\ \A k \in 1..tk_sent :
          CountOf(tk_put, k) = IF \E t \in tk_threads : t.of = k THEN 0 ELSE 1
    /\ \A i \in 1..Len(tk_put) : tk_put[i].type \in {"response", "error"}
    /\ tk_displayed \o response_queue = tk_put
    /\ tk_armed

\* the entry of send k has been displayed
TkShown(k) == \E i \in 1..Len(tk_displayed) : tk_displayed[i].of = k

\* C27: every sent message puts exactly one entry, a response or an error,
\* on the response queue, and the polling callback, re-armed on every run,
\* eventually takes every entry off and displays it exactly once, in the
\* order the entries were put.
TkQueueDelivers ==
    /\ []TkQueueInOrder
    /\ []<>(\A k \in 1..tk_sent : TkShown(k))

TkQueueDeliversWitness ==
    /\ tk_sent = 2
    /\ Len(tk_put) = 2
    /\ tk_put[1].of = 2 /\ tk_put[1].data = TkDemoBranches[1].text
    /\ tk_put[2].of = 1 /\ tk_put[2].data = TkDemoDefault
    /\ tk_displayed = tk_put
    /\ Len(response_queue) = 0
    /\ chat_display[Len(chat_display) - 1].text = Last(SplitLines(TkDemoDefault))

\* the entries after an optional leading welcome message
AfterWelcome(entries) ==
    IF Len(entries) > 0 /\ entries[1] = ChatMessage("Assistant", FastWelcomeText)
    THEN Tail(entries)
    ELSE entries

\* the entries after the welcome message alternate You, Assistant, the
\* assistant's entry being the response to the user's message before it
FastAlternates ==
    LET rest == AfterWelcome(conversations.entries)
    IN /\ Len(rest) % 2 = 0
       /\ \A i \in 1..Len(rest) :
             IF i % 2 = 1
             THEN rest[i].sender = "You"
             ELSE rest[i] = ChatMessage("Assistant",
                                        get_demo_response(rest[i - 1].message))

\* a chat appends exactly two entries, the user's message and then one
\* assistant entry; a clear leaves the conversation empty
FastStepEffect ==
    /\ fast_last'.op = "chat" =>
          LET n == Len(conversations.entries)
          IN /\ Len(conversations'.entries) = n + 2
             /\ SubSeq(conversations'.entries, 1, n) = conversations.entries
             /\ conversations'.entries[n + 1] = ChatMessage("You", fast_last'.message)
             /\ conversations'.entries[n + 2].sender = "Assistant"
    /\ fast_last'.op = "clear" => Len(conversations'.entries) = 0

\* C28: each POST /chat appends exactly two entries to the conversation, the
\* user's message immediately followed by one assistant entry (an error
\* text when response generation raised); after any sequence of home, chat
\* and clear the entries after an optional leading welcome message
\* alternate You, Assistant; clear leaves the conversation empty.
FastConversationShape ==
    /\ []FastAlternates
    /\ [][FastStepEffect]_vars

FastConversationShapeWitness ==
    /\ fast_last.op = "chat"
    /\ Len(conversations.entries) = 5
    /\ conversations.entries[1] = ChatMessage("Assistant", FastWelcomeText)
    /\ conversations.entries[2] = ChatMessage("You", <<83, 97, 118, 101>>)
    /\ conversations.entries[3] = ChatMessage("Assistant", FastDemoBranches[4].text)
    /\ conversations.entries[5] = ChatMessage("Assistant", FastDemoDefault)

\* C29: for every text, the validator's has_amount flag is true exactly when
\* extract_amounts returns a non-empty list for the same text.
ValidatorAgreesWithExtractor ==
    /\ call.fn = "validate_financial_input" =>
          call.result.has_amount = (Len(extract_amounts(call.arg)) > 0)
    /\ call.fn = "extract_amounts" =>
          validate_financial_input(call.arg).has_amount = (Len(call.result) > 0)

ValidatorAgreesWithExtractorWitness ==
    /\ call.fn = "validate_financial_input"
    /\ call.arg = <<50, 46, 53, 37>>
    /\ call.result.has_amount
    /\ extract_amounts(call.arg) = <<200, 500>>

\* C30: for every non-negative amount x with at most two decimal digits,
\* extract_amounts(format_currency(x)) is the one-element list [x].
FormatExtractRoundTrip ==
    (call.fn = "format_currency" /\ call.arg >= 0) =>
        extract_amounts(call.result) = <<call.arg>>

FormatExtractRoundTripWitness ==
    /\ call.fn = "format_currency"
    /\ call.arg = 100000000
    /\ call.result = <<36, 49, 44, 48, 48, 48, 44, 48, 48, 48, 46, 48, 48>>
    /\ extract_amounts(call.result) = <<100000000>>

====
